---- MODULE Spec2Model ----
(***************************************************************************)
(* caplog: the capture pipeline of src/packets/packets.go, the aggregator  *)
(* of src/dashboard/accounting.go, the reverse DNS map and the sink        *)
(* writer, as state machines.                                              *)
(*                                                                         *)
(* The specifications share the variables:                                 *)
(*   SpecAcct  concurrent callers of dashboard.AddPacket, one atomic add   *)
(*             per step;                                                   *)
(*   Spec      Capture.Live: the pump, the packet channel, the processor   *)
(*             workers, the buffer ring and the asynchronous logBuffer     *)
(*             tasks with writePackets' retry loop;                        *)
(*   SpecDNS   reverseDNSMap.add, one adder;                               *)
(*   SpecRW    add beside the readers name and len;                        *)
(*   SpecNames the processors' use of names and add, layer by layer;       *)
(*   SpecWrite one call of writePackets with its waits;                    *)
(*   SpecMain  main without a sink: the HTTP listener, Live and the end    *)
(*             of the process; FairMain adds the goroutines' scheduling.   *)
(*   SpecClass the address classification: IsLocal, local and the        *)
(*             -localnet flag as AddPacket sees it;                        *)
(*   SpecPool  one processor's buffers and the ring of spare buffers;      *)
(*   SpecLayers the processor's pass over the decoded layers of a packet;  *)
(*   SpecShared the shared state outside the capture: the published        *)
(*             variables and the page handlers;                            *)
(*   FairLive  Spec with the scheduling of the capture's goroutines.       *)
(***************************************************************************)
EXTENDS Integers, Sequences, FiniteSets, Bags, TLC

\* ------------------------------------------------------------------------
\* Bounds of the model.
\* ------------------------------------------------------------------------
NumCallers == 2
MaxCalls == 3
\* runtime.NumCPU(): the number of processor workers Live starts.
NumCPU == 2
\* c.BufferSize (-buffer): the capacity of a batch and of the packet channel.
BufferSize == 2
\* The number of frames the source can deliver in a run.
MaxFrames == 3
\* The number of http.Post calls that fail on transport in a run.
MaxTransportErrors == 1

\* ------------------------------------------------------------------------
\* net.IP and net.IPNet.  An IP is its byte slice; the nil IP is <<>>.
\* ------------------------------------------------------------------------
NilIP == <<>>

Zeros(n) == [i \in 1..n |-> 0]

IP4(a, b, c, d) == <<a, b, c, d>>

\* A 16-byte address given by its first two bytes and its last byte.
IP6(a, b, z) == <<a, b>> \o Zeros(13) \o <<z>>

\* net.IP.To4: the 4-byte form of an IPv4 or IPv4-mapped address, else nil.
To4(ip) ==
  IF Len(ip) = 4 THEN ip
  ELSE IF /\ Len(ip) = 16
          /\ \A i \in 1..10 : ip[i] = 0
          /\ ip[11] = 255
          /\ ip[12] = 255
       THEN SubSeq(ip, 13, 16)
       ELSE NilIP

Pow2(n) == IF n = 0 THEN 1 ELSE IF n = 1 THEN 2 ELSE IF n = 2 THEN 4
           ELSE IF n = 3 THEN 8 ELSE IF n = 4 THEN 16 ELSE IF n = 5 THEN 32
           ELSE IF n = 6 THEN 64 ELSE IF n = 7 THEN 128 ELSE 256

\* The number of mask bits that fall into byte i (1-based) of a /ones mask.
MaskBits(ones, i) ==
  LET r == ones - 8 * (i - 1)
  IN  IF r <= 0 THEN 0 ELSE IF r >= 8 THEN 8 ELSE r

\* b & m, for m the mask byte with its `bits` high bits set.
AndMask(b, bits) == b - (b % Pow2(8 - bits))

\* A netblock as net.ParseCIDR returns it: the network number and the
\* number of leading ones of the mask.
CIDR(ip, ones) == [IP |-> ip, Ones |-> ones]

NoNet == [IP |-> NilIP, Ones |-> 0]

\* (*net.IPNet).Contains
Contains(n, ip) ==
  LET x == IF To4(ip) # NilIP THEN To4(ip) ELSE ip
  IN  /\ Len(x) = Len(n.IP)
      /\ \A i \in 1..Len(x) :
           AndMask(n.IP[i], MaskBits(n.Ones, i)) = AndMask(x[i], MaskBits(n.Ones, i))

stdLocalNets ==
  << CIDR(IP4(10, 0, 0, 0), 8),
     CIDR(IP4(172, 16, 0, 0), 12),
     CIDR(IP4(192, 168, 0, 0), 16),
     CIDR(IP6(253, 0, 0), 8),
     CIDR(IP4(169, 254, 0, 0), 16),
     CIDR(IP6(254, 128, 0), 10),
     CIDR(IP4(0, 0, 0, 0), 32),
     CIDR(IP4(255, 255, 255, 255), 32) >>

\* dashboard.LocalNetblock: declared nil, and main assigns the -localnet
\* range to packets.LocalNetblock, never to this one.
LocalNetblock == NoNet

\* dashboard.isLocal
isLocal(ip) ==
  \/ (LocalNetblock # NoNet /\ Contains(LocalNetblock, ip))
  \/ \E i \in 1..Len(stdLocalNets) : Contains(stdLocalNets[i], ip)

\* ------------------------------------------------------------------------
\* packets.Metadata, reduced to what the aggregator reads.
\* ------------------------------------------------------------------------
Meta(src, dst, size, v6) == [SrcIP |-> src, DstIP |-> dst, Size |-> size, V6 |-> v6]

\* The packets the callers account: the scenarios of the specification,
\* a packet with no IP layer, and packets whose V6 flag crosses the boundary.
TestPackets ==
  { Meta(IP4(10, 0, 0, 5), IP4(8, 8, 8, 8), 80, FALSE),
    Meta(IP6(32, 1, 1), IP6(253, 0, 2), 1400, TRUE),
    Meta(IP4(192, 168, 1, 2), IP4(192, 168, 1, 3), 64, FALSE),
    Meta(IP4(8, 8, 8, 8), IP4(1, 1, 1, 1), 80, FALSE),
    Meta(NilIP, NilIP, 60, FALSE),
    Meta(IP6(254, 128, 1), IP6(253, 0, 2), 64, TRUE),
    Meta(IP6(253, 0, 2), IP6(32, 1, 1), 1400, TRUE) }

NoMeta == Meta(NilIP, NilIP, 0, FALSE)

Counters == {"Total", "Up", "Down", "Internal", "External", "V4", "V6"}

\* dashboard.Values after construction: every Aggregation is zero.
ZeroVals == [k \in Counters |-> [Bytes |-> 0, Packets |-> 0]]

\* The two atomic adds of Aggregation.Add, one each.
AddBytes(v, k, bytes) == [v EXCEPT ![k].Bytes = @ + bytes]

AddPackets(v, k) == [v EXCEPT ![k].Packets = @ + 1]

\* Aggregation.Add as a whole.
Add(v, k, bytes) == AddPackets(AddBytes(v, k, bytes), k)

\* Classify with the default case adding to Total again.
ClassifyDefaultTotal(m) ==
  LET srcPrivate == isLocal(m.SrcIP)
      dstPrivate == isLocal(m.DstIP)
  IN  IF srcPrivate /\ dstPrivate THEN "Internal"
      ELSE IF srcPrivate THEN "Up"
      ELSE IF dstPrivate THEN "Down"
      ELSE "Total"

\* Classify with the cases of Up and Down exchanged.
ClassifySwapped(m) ==
  LET srcPrivate == isLocal(m.SrcIP)
      dstPrivate == isLocal(m.DstIP)
  IN  IF srcPrivate /\ dstPrivate THEN "Internal"
      ELSE IF srcPrivate THEN "Down"
      ELSE IF dstPrivate THEN "Up"
      ELSE "External"

\* The switch of AddPacket: the subtotal the packet is classified into.
Classify(m) ==
  LET srcPrivate == isLocal(m.SrcIP)
      dstPrivate == isLocal(m.DstIP)
  IN  IF srcPrivate /\ dstPrivate THEN "Internal"
      ELSE IF srcPrivate THEN "Up"
      ELSE IF dstPrivate THEN "Down"
      ELSE "External"

\* The V4/V6 update without its guard.
CountsFamilyAlways(m) == TRUE

\* The V4/V6 update guarded by the packet's family as well.
CountsFamilyOrV6(m) == m.V6 \/ ~(isLocal(m.SrcIP) /\ isLocal(m.DstIP))

\* The guard of the V4/V6 update of AddPacket.
CountsFamily(m) == ~(isLocal(m.SrcIP) /\ isLocal(m.DstIP))

Family(m) == IF m.V6 THEN "V6" ELSE "V4"

\* AddPacket run to completion.
AddPacket(v, m) ==
  LET v1 == Add(v, "Total", m.Size)
      v2 == Add(v1, Classify(m), m.Size)
  IN  IF CountsFamily(m) THEN Add(v2, Family(m), m.Size) ELSE v2

VARIABLES
  vals,        \* dashboard.vals
  apc,         \* per caller: the position inside AddPacket
  am,          \* per caller: the Metadata of the call in progress
  returned,    \* history: the Metadata of every AddPacket call that has returned
  lpc,         \* the position of Capture.Live
  sink,        \* c.Log != nil
  stop,        \* the number of signals buffered in the stop channel (capacity 1)
  packetsCh,   \* the frames buffered in packetsCh
  chClosed,    \* packetsCh has been closed
  cur,         \* the packet the pump holds between NextPacket and the select
  nread,       \* the number of frames read from the source
  wpc,         \* per processor: its position
  wpkt,        \* per processor: the packet of the current loop iteration
  wbuf,        \* per processor: its variable `buffer`, a slice [arr, len]
  heap,        \* the backing arrays allocated by make([]Metadata, 0, BufferSize)
  bufferRing,  \* the slices buffered in c.bufferRing
  tasks,       \* the calls of c.Log: go c.logBuffer(b) tasks and deferred flushes
  nfail,       \* the number of http.Post calls that have failed on transport
  enqueued,    \* history: the frames sent on packetsCh, in order
  dropped,     \* history: the frames the pump held when it selected <-stop
  accounted,   \* history: the frames passed to c.Account, in order
  closes,      \* history: the number of close(packetsCh) executed
  rm,          \* reverseDNSMap.rm: Endpoint -> name
  mu,          \* reverseDNSMap.mu: "free" or "locked" (held for writing)
  dpc,         \* the position of the add call in progress
  dans,        \* the records of dns.Answers the last add call has scanned
  cnames,      \* add's local map cnames
  ips,         \* add's local map ips
  dleft,       \* the keys of ips the range loop of add has yet to visit
  dip,         \* add's loop variable ip
  dn,          \* add's loop variable n
  dnames,      \* add's local slice names
  nadds,       \* the number of add calls started
  bound,       \* history: the endpoints an add has assigned in rm
  rlocks,      \* reverseDNSMap.mu: the number of holders of the read lock
  npc,         \* the position of the name call in progress
  lenpc,       \* the position of the len call of the map-size probe
  nframes,     \* SpecNames: the frames of the capture, in capture order
  nq,          \* SpecNames: the indices of the frames not yet received
  nwpc,        \* SpecNames: per processor, its position in the loop body
  nwi,         \* SpecNames: per processor, the index of its frame
  nwl,         \* SpecNames: per processor, the index into decoded
  nwb,         \* SpecNames: per processor, the Metadata b
  emitted,     \* SpecNames: history, frame index -> Metadata given to Account
  ppc,         \* SpecWrite: the position of the writePackets call
  plen,        \* SpecWrite: len(data)
  pfails,      \* SpecWrite: the number of requests the sink fails on transport
  pstatus,     \* SpecWrite: the status the sink answers with after them
  pi,          \* SpecWrite: the loop variable i
  pbase,       \* SpecWrite: waitBase, in ms
  posts,       \* SpecWrite: history, the outcome of each http.Post
  waits,       \* SpecWrite: history, the duration of each wait, in ms
  hpc,         \* SpecMain: the position of the http.ListenAndServe goroutine
  exit,        \* SpecMain: how the process has ended, or "running"
  localnet,    \* SpecClass: the value of the -localnet flag
  pktNet,      \* SpecClass: packets.LocalNetblock
  cpc,         \* SpecClass: the position of main around the -localnet block
  ip1,         \* SpecClass: the first address of the calls
  ip2,         \* SpecClass: the second address of the calls
  cret,        \* SpecClass: history, the calls that have returned
  bufsz,       \* SpecPool: c.BufferSize as configured
  pool,        \* SpecPool: the slices buffered in c.bufferRing
  pbuf,        \* SpecPool: the processor's variable `buffer`
  bpc,         \* SpecPool: the position of the processor
  plog,        \* SpecPool: the bag of slices held by logBuffer goroutines
  plast,       \* SpecPool: history, the last nextBuffer or release on the pool
  yq,          \* SpecLayers: the packets still to come, in capture order
  ypc,         \* SpecLayers: the position of the processor
  ypkt,        \* SpecLayers: the packet of the current loop iteration
  yip4,        \* SpecLayers: the decoder struct ip4
  yip6,        \* SpecLayers: the decoder struct ip6
  yl,          \* SpecLayers: the index in `decoded` of the layer the loop is at
  yb,          \* SpecLayers: the Metadata b of the loop body
  yout,        \* SpecLayers: history, the packets and the Metadata passed to Account
  varMap,      \* SpecShared: the keys of vars.varMap
  nreg,        \* SpecShared: the number of Register calls of Live that have returned
  inreg,       \* SpecShared: Live is inside an assignment to varMap
  shpc,        \* SpecShared: per HTTP handler goroutine, its position
  shraced,     \* SpecShared: per handler, its range over varMap overlapped a write
  nowBy,       \* SpecShared: the handler whose time stamp vals.Now holds, or 0
  nreq,        \* SpecShared: the number of requests begun
  crashed      \* SpecShared: the runtime has ended the process

acctVars == <<vals, apc, am, returned>>

pumpVars == <<lpc, stop, packetsCh, chClosed, cur, nread, enqueued, dropped, closes>>

workerVars == <<wpc, wpkt, wbuf, heap, bufferRing, accounted>>

liveVars == <<lpc, sink, stop, packetsCh, chClosed, cur, nread, wpc, wpkt, wbuf, heap,
              bufferRing, tasks, nfail, enqueued, dropped, accounted, closes>>

dnsVars == <<rm, mu, dpc, dans, cnames, ips, dleft, dip, dn, dnames, nadds, bound>>

rwVars == <<rlocks, npc, lenpc>>

\* The variables of the specifications that follow SpecDNS.
namesVars == <<nframes, nq, nwpc, nwi, nwl, nwb, emitted>>

writeVars == <<ppc, plen, pfails, pstatus, pi, pbase, posts, waits>>

mainVars == <<hpc, exit>>

classVars == <<localnet, pktNet, cpc, ip1, ip2, cret>>

\* The variables of the specifications that follow SpecMain.
poolVars == <<bufsz, pool, pbuf, bpc, plog, plast>>

layersVars == <<yq, ypc, ypkt, yip4, yip6, yl, yb, yout>>

sharedVars == <<varMap, nreg, inreg, shpc, shraced, nowBy, nreq, crashed>>

laterVars == <<classVars, poolVars, layersVars, sharedVars>>

extraVars == <<rwVars, namesVars, writeVars, mainVars, laterVars>>

vars == <<vals, apc, am, returned, lpc, sink, stop, packetsCh, chClosed, cur, nread,
          wpc, wpkt, wbuf, heap, bufferRing, tasks, nfail, enqueued, dropped,
          accounted, closes, rm, mu, dpc, dans, cnames, ips, dleft, dip, dn, dnames,
          nadds, bound, rlocks, npc, lenpc, nframes, nq, nwpc, nwi, nwl, nwb,
          emitted, ppc, plen, pfails, pstatus, pi, pbase, posts, waits, hpc, exit,
          localnet, pktNet, cpc, ip1, ip2, cret, bufsz, pool, pbuf, bpc, plog, plast,
          yq, ypc, ypkt, yip4, yip6, yl, yb, yout,
          varMap, nreg, inreg, shpc, shraced, nowBy, nreq, crashed>>

\* What no step of Capture.Live changes: the configuration, the callers of
\* SpecAcct and the reverse DNS map of SpecDNS.
fixed == <<sink, apc, am, returned, dnsVars, extraVars>>

\* The state of the variables of Capture.Live while no capture is modelled.
LiveIdle ==
  /\ lpc = "off"
  /\ sink = FALSE
  /\ stop = 0
  /\ packetsCh = <<>>
  /\ chClosed = FALSE
  /\ cur = 0
  /\ nread = 0
  /\ wpc = [w \in 1..NumCPU |-> "unborn"]
  /\ wpkt = [w \in 1..NumCPU |-> 0]
  /\ wbuf = [w \in 1..NumCPU |-> [arr |-> 0, len |-> 0]]
  /\ heap = <<>>
  /\ bufferRing = <<>>
  /\ tasks = <<>>
  /\ nfail = 0
  /\ enqueued = <<>>
  /\ dropped = <<>>
  /\ accounted = <<>>
  /\ closes = 0

\* The empty map.
EmptyMap == [x \in {} |-> ""]

\* gopacket.InvalidEndpoint
InvalidEndpoint == [typ |-> "Invalid", raw |-> <<>>]

\* The state of the reverse DNS map while no DNS answer is modelled:
\* newReverseDNSMap, and no add called.
DNSIdle ==
  /\ rm = EmptyMap
  /\ mu = "free"
  /\ dpc = "idle"
  /\ dans = <<>>
  /\ cnames = EmptyMap
  /\ ips = EmptyMap
  /\ dleft = {}
  /\ dip = InvalidEndpoint
  /\ dn = ""
  /\ dnames = <<>>
  /\ nadds = 0
  /\ bound = {}

\* No reader of the reverse DNS map is running.
RWIdle ==
  /\ rlocks = 0
  /\ npc = "idle"
  /\ lenpc = "idle"

\* No capture is being enriched.
NamesIdle ==
  /\ nframes = <<>>
  /\ nq = <<>>
  /\ nwpc = [w \in 1..NumCPU |-> "recv"]
  /\ nwi = [w \in 1..NumCPU |-> 0]
  /\ nwl = [w \in 1..NumCPU |-> 0]
  /\ nwb = [w \in 1..NumCPU |-> [SrcIP |-> <<>>, DstIP |-> <<>>, SrcName |-> "", DstName |-> "", V6 |-> FALSE]]
  /\ emitted = EmptyMap

\* No writePackets call is modelled.
WriteIdle ==
  /\ ppc = "off"
  /\ plen = 0
  /\ pfails = 0
  /\ pstatus = 0
  /\ pi = 0
  /\ pbase = 0
  /\ posts = <<>>
  /\ waits = <<>>

\* main and the HTTP listener are not running.
MainIdle ==
  /\ hpc = "off"
  /\ exit = "off"

\* No classification call is modelled.
ClassIdle ==
  /\ localnet = ""
  /\ pktNet = NoNet
  /\ cpc = "off"
  /\ ip1 = NilIP
  /\ ip2 = NilIP
  /\ cret = {}

\* No recycle pool is modelled.
PoolIdle ==
  /\ bufsz = 0
  /\ pool = <<>>
  /\ pbuf = [len |-> 0, cap |-> 0]
  /\ bpc = "off"
  /\ plog = EmptyBag
  /\ plast = [op |-> "none", before |-> <<>>, b |-> [len |-> 0, cap |-> 0]]

\* No decoding of layers is modelled.
LayersIdle ==
  /\ yq = <<>>
  /\ ypc = "off"
  /\ ypkt = [ip4 |-> [SrcIP |-> <<>>, DstIP |-> <<>>],
             ip6 |-> [SrcIP |-> <<>>, DstIP |-> <<>>], decoded |-> <<>>]
  /\ yip4 = [SrcIP |-> <<>>, DstIP |-> <<>>]
  /\ yip6 = [SrcIP |-> <<>>, DstIP |-> <<>>]
  /\ yl = 0
  /\ yb = [SrcIP |-> <<>>, DstIP |-> <<>>, SrcName |-> "", DstName |-> "", V6 |-> FALSE]
  /\ yout = <<>>

\* No HTTP handler and no Register call is modelled.
SharedIdle ==
  /\ varMap = {}
  /\ nreg = 0
  /\ inreg = FALSE
  /\ shpc = <<>>
  /\ shraced = <<>>
  /\ nowBy = 0
  /\ nreq = 0
  /\ crashed = FALSE

LaterIdle == ClassIdle /\ PoolIdle /\ LayersIdle /\ SharedIdle

ExtraIdle == RWIdle /\ NamesIdle /\ WriteIdle /\ MainIdle /\ LaterIdle

Callers == 1..NumCallers

\* ------------------------------------------------------------------------
\* SpecAcct: concurrent AddPacket calls.
\* ------------------------------------------------------------------------
InitAcct ==
  /\ vals = ZeroVals
  /\ apc = [c \in Callers |-> "idle"]
  /\ am = [c \in Callers |-> NoMeta]
  /\ returned = <<>>
  /\ LiveIdle
  /\ DNSIdle
  /\ ExtraIdle

Started == Len(returned) + Cardinality({c \in Callers : apc[c] # "idle"})

\* A worker enters AddPacket(m).
CallAddPacket(c) ==
  /\ apc[c] = "idle"
  /\ Started < MaxCalls
  /\ \E m \in TestPackets : am' = [am EXCEPT ![c] = m]
  /\ apc' = [apc EXCEPT ![c] = "TotalBytes"]
  /\ UNCHANGED <<vals, returned>>
  /\ UNCHANGED <<liveVars, dnsVars, extraVars>>

TotalBytes(c) ==
  /\ apc[c] = "TotalBytes"
  /\ vals' = AddBytes(vals, "Total", am[c].Size)
  /\ apc' = [apc EXCEPT ![c] = "TotalPackets"]
  /\ UNCHANGED <<am, returned>>
  /\ UNCHANGED <<liveVars, dnsVars, extraVars>>

TotalPackets(c) ==
  /\ apc[c] = "TotalPackets"
  /\ vals' = AddPackets(vals, "Total")
  /\ apc' = [apc EXCEPT ![c] = "ClassBytes"]
  /\ UNCHANGED <<am, returned>>
  /\ UNCHANGED <<liveVars, dnsVars, extraVars>>

ClassBytes(c) ==
  /\ apc[c] = "ClassBytes"
  /\ vals' = AddBytes(vals, Classify(am[c]), am[c].Size)
  /\ apc' = [apc EXCEPT ![c] = "ClassPackets"]
  /\ UNCHANGED <<am, returned>>
  /\ UNCHANGED <<liveVars, dnsVars, extraVars>>

ClassPackets(c) ==
  /\ apc[c] = "ClassPackets"
  /\ vals' = AddPackets(vals, Classify(am[c]))
  /\ apc' = [apc EXCEPT ![c] = IF CountsFamily(am[c]) THEN "FamilyBytes" ELSE "return"]
  /\ UNCHANGED <<am, returned>>
  /\ UNCHANGED <<liveVars, dnsVars, extraVars>>

FamilyBytes(c) ==
  /\ apc[c] = "FamilyBytes"
  /\ vals' = AddBytes(vals, Family(am[c]), am[c].Size)
  /\ apc' = [apc EXCEPT ![c] = "FamilyPackets"]
  /\ UNCHANGED <<am, returned>>
  /\ UNCHANGED <<liveVars, dnsVars, extraVars>>

FamilyPackets(c) ==
  /\ apc[c] = "FamilyPackets"
  /\ vals' = AddPackets(vals, Family(am[c]))
  /\ apc' = [apc EXCEPT ![c] = "return"]
  /\ UNCHANGED <<am, returned>>
  /\ UNCHANGED <<liveVars, dnsVars, extraVars>>

ReturnAddPacket(c) ==
  /\ apc[c] = "return"
  /\ returned' = Append(returned, am[c])
  /\ apc' = [apc EXCEPT ![c] = "idle"]
  /\ am' = [am EXCEPT ![c] = NoMeta]
  /\ UNCHANGED vals
  /\ UNCHANGED <<liveVars, dnsVars, extraVars>>

NextAcct ==
  \E c \in Callers :
    \/ CallAddPacket(c)
    \/ TotalBytes(c)
    \/ TotalPackets(c)
    \/ ClassBytes(c)
    \/ ClassPackets(c)
    \/ FamilyBytes(c)
    \/ FamilyPackets(c)
    \/ ReturnAddPacket(c)

SpecAcct == InitAcct /\ [][NextAcct]_vars

\* No AddPacket call is in progress.
Quiescent == \A c \in Callers : apc[c] = "idle"

\* C1: once every AddPacket call has returned, Total equals the sum of Up,
\* Down, Internal and External, in bytes and in packets.
C1_TotalIsSumOfSubtotals ==
  Quiescent =>
    /\ vals["Total"].Bytes = vals["Up"].Bytes + vals["Down"].Bytes
                              + vals["Internal"].Bytes + vals["External"].Bytes
    /\ vals["Total"].Packets = vals["Up"].Packets + vals["Down"].Packets
                                + vals["Internal"].Packets + vals["External"].Packets

\* Calls have returned, issued by both callers' interleavings, and at least
\* an external and a non-external packet were accounted.
C1_Witness ==
  /\ Quiescent
  /\ Len(returned) >= 2
  /\ vals["External"].Packets > 0
  /\ vals["Total"].Packets > vals["External"].Packets

\* C2: once every AddPacket call has returned, V4 + V6 equals
\* Up + Down + External, in bytes and in packets.
C2_FamilyIsBoundaryTraffic ==
  Quiescent =>
    /\ vals["V4"].Bytes + vals["V6"].Bytes
         = vals["Up"].Bytes + vals["Down"].Bytes + vals["External"].Bytes
    /\ vals["V4"].Packets + vals["V6"].Packets
         = vals["Up"].Packets + vals["Down"].Packets + vals["External"].Packets

\* An intra-local packet and a boundary-crossing packet were both accounted.
C2_Witness ==
  /\ Quiescent
  /\ vals["Internal"].Packets > 0
  /\ vals["V4"].Packets + vals["V6"].Packets > 0

\* The counters the claim says AddPacket(m) adds (m.Size, 1) to.
C3_Local(ip) == ip # NilIP /\ isLocal(ip)

C3_Targets(m) ==
  LET s == C3_Local(m.SrcIP)
      d == C3_Local(m.DstIP)
  IN  {"Total"}
      \cup (IF s /\ d THEN {"Internal"} ELSE {})
      \cup (IF s /\ ~d THEN {"Up"} ELSE {})
      \cup (IF ~s /\ d THEN {"Down"} ELSE {})
      \cup (IF ~s /\ ~d THEN {"External"} ELSE {})
      \cup (IF ~(s /\ d) /\ m.V6 THEN {"V6"} ELSE {})
      \cup (IF ~(s /\ d) /\ ~m.V6 THEN {"V4"} ELSE {})

RECURSIVE C3_Expected(_, _)
C3_Expected(k, calls) ==
  IF calls = <<>> THEN [Bytes |-> 0, Packets |-> 0]
  ELSE LET rest == C3_Expected(k, Tail(calls))
           m == Head(calls)
       IN  IF k \in C3_Targets(m)
           THEN [Bytes |-> rest.Bytes + m.Size, Packets |-> rest.Packets + 1]
           ELSE rest

\* C3: every returned AddPacket(m) has added (m.Size, 1) to Total, to the one
\* subtotal chosen by the locality of source and destination and, unless both
\* are local, to the one family counter chosen by m.V6, and to nothing else.
C3_AddPacketEffect ==
  Quiescent => \A k \in Counters : vals[k] = C3_Expected(k, returned)

\* An intra-local packet has been accounted and V4 and V6 are still zero,
\* and in another run a packet without IPs has been accounted.
C3_Witness ==
  /\ Quiescent
  /\ \E i \in 1..Len(returned) :
       /\ C3_Local(returned[i].SrcIP)
       /\ C3_Local(returned[i].DstIP)
  /\ \E i \in 1..Len(returned) : returned[i].SrcIP = NilIP
  /\ vals["V4"].Packets = 1
  /\ vals["V6"].Packets = 0

\* ------------------------------------------------------------------------
\* Spec: Capture.Live, Capture.processor, logBuffer and writePackets.
\* ------------------------------------------------------------------------
maxBuffers == 100

influxRetryLimit == 5

Workers == 1..NumCPU

\* The Metadata a processor builds for frame f.
SampleMeta ==
  << Meta(IP4(10, 0, 0, 5), IP4(8, 8, 8, 8), 80, FALSE),
     Meta(IP4(192, 168, 1, 2), IP4(192, 168, 1, 3), 64, FALSE),
     Meta(IP6(32, 1, 1), IP6(253, 0, 2), 1400, TRUE) >>

FrameMeta(f) == SampleMeta[((f - 1) % Len(SampleMeta)) + 1]

\* make([]Metadata, 0, c.BufferSize): a new backing array.
NewArray == [i \in 1..BufferSize |-> 0]

\* Capture.nextBuffer: a buffer received from the ring if one is ready,
\* else a new one.
nextBuffer(ring, h) ==
  IF ring # <<>>
  THEN [buf |-> Head(ring), ring |-> Tail(ring), heap |-> h]
  ELSE [buf |-> [arr |-> Len(h) + 1, len |-> 0], ring |-> ring,
        heap |-> Append(h, NewArray)]

\* logBuffer sending b instead of b[:0].
releaseUntruncated(ring, b) ==
  IF Len(ring) < maxBuffers THEN Append(ring, [arr |-> b.arr, len |-> b.len]) ELSE ring

\* The select of logBuffer: b[:0] is sent to the ring unless the ring is full.
release(ring, b) ==
  IF Len(ring) < maxBuffers THEN Append(ring, [arr |-> b.arr, len |-> 0]) ELSE ring

\* The range loop ends although frames are still buffered.
RangeDoneOnClose(ch, closed) == closed

\* The range loop ends on an empty channel that is not closed.
RangeDoneOnEmpty(ch, closed) == ch = <<>>

\* `for packet := range packetsCh` ends: the channel is closed and drained.
RangeDone(ch, closed) == closed /\ ch = <<>>

\* wg.Wait returns as soon as one processor has returned.
WaitDoneAny(pcs) == \E w \in Workers : pcs[w] = "done"

\* wg.Wait returns: every processor has called wg.Done.
WaitDone(pcs) == \A w \in Workers : pcs[w] = "done"

\* The records of slice b, read from the backing arrays h.
Contents(h, b) == SubSeq(h[b.arr], 1, b.len)

InitLive ==
  /\ vals = ZeroVals
  /\ apc = [c \in Callers |-> "idle"]
  /\ am = [c \in Callers |-> NoMeta]
  /\ returned = <<>>
  /\ lpc = "open"
  /\ sink \in BOOLEAN
  /\ stop = 0
  /\ packetsCh = <<>>
  /\ chClosed = FALSE
  /\ cur = 0
  /\ nread = 0
  /\ wpc = [w \in Workers |-> "unborn"]
  /\ wpkt = [w \in Workers |-> 0]
  /\ wbuf = [w \in Workers |-> [arr |-> 0, len |-> 0]]
  /\ heap = <<>>
  /\ bufferRing = <<>>
  /\ tasks = <<>>
  /\ nfail = 0
  /\ enqueued = <<>>
  /\ dropped = <<>>
  /\ accounted = <<>>
  /\ closes = 0
  /\ DNSIdle
  /\ ExtraIdle

\* ---- Capture.Live ----

\* pcap.OpenLive succeeds.
OpenLive ==
  /\ lpc = "open"
  /\ lpc' = "filter"
  /\ UNCHANGED <<vals, fixed, stop, packetsCh, chClosed, cur, nread, enqueued, dropped,
                 closes, tasks, nfail>>
  /\ UNCHANGED workerVars

\* pcap.OpenLive fails: Live returns the error.
OpenLiveError ==
  /\ lpc = "open"
  /\ lpc' = "failed"
  /\ UNCHANGED <<vals, fixed, stop, packetsCh, chClosed, cur, nread, enqueued, dropped,
                 closes, tasks, nfail>>
  /\ UNCHANGED workerVars

\* handle.SetBPFFilter succeeds.
SetBPFFilter ==
  /\ lpc = "filter"
  /\ lpc' = "setup"
  /\ UNCHANGED <<vals, fixed, stop, packetsCh, chClosed, cur, nread, enqueued, dropped,
                 closes, tasks, nfail>>
  /\ UNCHANGED workerVars

\* handle.SetBPFFilter fails: Live returns the error.
SetBPFFilterError ==
  /\ lpc = "filter"
  /\ lpc' = "failed"
  /\ UNCHANGED <<vals, fixed, stop, packetsCh, chClosed, cur, nread, enqueued, dropped,
                 closes, tasks, nfail>>
  /\ UNCHANGED workerVars

\* The channels are made, the processors are started (wg.Add, go) and the
\* stop channel is registered for os.Interrupt.
StartWorkers ==
  /\ lpc = "setup"
  /\ lpc' = "next"
  /\ wpc' = [w \in Workers |-> "start"]
  /\ UNCHANGED <<vals, fixed, stop, packetsCh, chClosed, cur, nread, enqueued, dropped,
                 closes, tasks, nfail>>
  /\ UNCHANGED <<wpkt, wbuf, heap, bufferRing, accounted>>

\* os.Interrupt is delivered: signal.Notify's send on stop, which never blocks.
Interrupt ==
  /\ lpc \in {"next", "send", "close", "wait"}
  /\ stop = 0
  /\ stop' = 1
  /\ UNCHANGED <<vals, fixed, lpc, packetsCh, chClosed, cur, nread, enqueued, dropped,
                 closes, tasks, nfail>>
  /\ UNCHANGED workerVars

\* src.NextPacket returns a packet.
NextPacket ==
  /\ lpc = "next"
  /\ nread < MaxFrames
  /\ nread' = nread + 1
  /\ cur' = nread + 1
  /\ lpc' = "send"
  /\ UNCHANGED <<vals, fixed, stop, packetsCh, chClosed, enqueued, dropped, closes,
                 tasks, nfail>>
  /\ UNCHANGED workerVars

\* src.NextPacket returns io.EOF: break packetLoop.
NextPacketEOF ==
  /\ lpc = "next"
  /\ lpc' = "close"
  /\ UNCHANGED <<vals, fixed, stop, packetsCh, chClosed, cur, nread, enqueued, dropped,
                 closes, tasks, nfail>>
  /\ UNCHANGED workerVars

\* src.NextPacket returns another error: it is logged and the loop continues.
NextPacketError ==
  /\ lpc = "next"
  /\ UNCHANGED vars

\* The send as a select with a default case that discards the frame.
SendPacketOrDiscard ==
  /\ lpc = "send"
  /\ IF Len(packetsCh) < BufferSize
     THEN /\ packetsCh' = Append(packetsCh, cur)
          /\ enqueued' = Append(enqueued, cur)
          /\ UNCHANGED dropped
     ELSE /\ dropped' = Append(dropped, cur)
          /\ UNCHANGED <<packetsCh, enqueued>>
  /\ cur' = 0
  /\ lpc' = "next"
  /\ UNCHANGED <<vals, fixed, stop, chClosed, nread, closes, tasks, nfail>>
  /\ UNCHANGED workerVars

\* select, case packetsCh <- packet.
SendPacket ==
  /\ lpc = "send"
  /\ Len(packetsCh) < BufferSize
  /\ packetsCh' = Append(packetsCh, cur)
  /\ enqueued' = Append(enqueued, cur)
  /\ cur' = 0
  /\ lpc' = "next"
  /\ UNCHANGED <<vals, fixed, stop, chClosed, nread, dropped, closes, tasks, nfail>>
  /\ UNCHANGED workerVars

\* The stop case taken only when the queue has room.
SelectStopWhenRoom ==
  /\ lpc = "send"
  /\ stop = 1
  /\ Len(packetsCh) < BufferSize
  /\ stop' = 0
  /\ dropped' = Append(dropped, cur)
  /\ cur' = 0
  /\ lpc' = "close"
  /\ UNCHANGED <<vals, fixed, packetsCh, chClosed, nread, enqueued, closes, tasks, nfail>>
  /\ UNCHANGED workerVars

\* select, case <-stop: break packetLoop.
SelectStop ==
  /\ lpc = "send"
  /\ stop = 1
  /\ stop' = 0
  /\ dropped' = Append(dropped, cur)
  /\ cur' = 0
  /\ lpc' = "close"
  /\ UNCHANGED <<vals, fixed, packetsCh, chClosed, nread, enqueued, closes, tasks, nfail>>
  /\ UNCHANGED workerVars

\* The pump going on to wg.Wait without close(packetsCh).
ClosePacketsOmitted ==
  /\ lpc = "close"
  /\ lpc' = "wait"
  /\ UNCHANGED <<vals, fixed, stop, packetsCh, chClosed, closes, cur, nread, enqueued, dropped,
                 tasks, nfail>>
  /\ UNCHANGED workerVars

\* close(packetsCh)
ClosePackets ==
  /\ lpc = "close"
  /\ chClosed' = TRUE
  /\ closes' = closes + 1
  /\ lpc' = "wait"
  /\ UNCHANGED <<vals, fixed, stop, packetsCh, cur, nread, enqueued, dropped, tasks, nfail>>
  /\ UNCHANGED workerVars

\* wg.Wait returns and Live returns nil.
Wait ==
  /\ lpc = "wait"
  /\ WaitDone(wpc)
  /\ lpc' = "returned"
  /\ UNCHANGED <<vals, fixed, stop, packetsCh, chClosed, cur, nread, enqueued, dropped,
                 closes, tasks, nfail>>
  /\ UNCHANGED workerVars

\* ---- Capture.processor ----

pumpAll == <<lpc, fixed, stop, packetsCh, chClosed, cur, nread, enqueued, dropped, closes>>

\* A call of c.Log on slice b: by a `go c.logBuffer(b)` task ("async") or by
\* the deferred function of processor w ("flush").  i counts the attempts of
\* writePackets, sers holds the position of every body serializer goroutine
\* that has not finished; handed is the batch as it was when the processor
\* gave it away and snap the batch as it was when Log was called.
NewTask(kind, w, b, pc, handed, snap) ==
  [kind |-> kind, w |-> w, arr |-> b.arr, len |-> b.len, pc |-> pc, i |-> 0,
   sers |-> <<>>, handed |-> handed, snap |-> snap]

\* The calls of c.Log a run can make: one per full batch and one per processor.
TaskIds == 1..(MaxFrames + NumCPU)

\* writePackets entered with data: it returns at once when data is empty.
EnterLog(b) == IF b.len = 0 THEN "logret" ELSE "attempt"

\* buffer := c.nextBuffer(), at the start of processor.
WStart(w) ==
  /\ wpc[w] = "start"
  /\ LET r == nextBuffer(bufferRing, heap)
     IN  /\ wbuf' = [wbuf EXCEPT ![w] = r.buf]
         /\ bufferRing' = r.ring
         /\ heap' = r.heap
  /\ wpc' = [wpc EXCEPT ![w] = "recv"]
  /\ UNCHANGED <<vals, wpkt, accounted, tasks, nfail>>
  /\ UNCHANGED pumpAll

\* The range loop receives a packet.
WRecv(w) ==
  /\ wpc[w] = "recv"
  /\ packetsCh # <<>>
  /\ wpkt' = [wpkt EXCEPT ![w] = Head(packetsCh)]
  /\ packetsCh' = Tail(packetsCh)
  /\ wpc' = [wpc EXCEPT ![w] = "account"]
  /\ UNCHANGED <<vals, fixed, lpc, stop, chClosed, cur, nread, enqueued, dropped, closes>>
  /\ UNCHANGED <<wbuf, heap, bufferRing, accounted, tasks, nfail>>

\* The range loop ends; the deferred function runs next.
WRangeEnd(w) ==
  /\ wpc[w] = "recv"
  /\ RangeDone(packetsCh, chClosed)
  /\ wpc' = [wpc EXCEPT ![w] = "flush"]
  /\ UNCHANGED <<vals, wpkt, wbuf, heap, bufferRing, accounted, tasks, nfail>>
  /\ UNCHANGED pumpAll

\* The packet is decoded into b and c.Account(&b) is called.
WAccount(w) ==
  /\ wpc[w] = "account"
  /\ vals' = AddPacket(vals, FrameMeta(wpkt[w]))
  /\ accounted' = Append(accounted, wpkt[w])
  /\ wpc' = [wpc EXCEPT ![w] = IF sink THEN "append" ELSE "recv"]
  /\ wpkt' = [wpkt EXCEPT ![w] = IF sink THEN @ ELSE 0]
  /\ UNCHANGED <<wbuf, heap, bufferRing, tasks, nfail>>
  /\ UNCHANGED pumpAll

\* buffer = append(buffer, b)
WAppend(w) ==
  /\ wpc[w] = "append"
  /\ heap' = [heap EXCEPT ![wbuf[w].arr][wbuf[w].len + 1] = wpkt[w]]
  /\ wbuf' = [wbuf EXCEPT ![w].len = @ + 1]
  /\ wpkt' = [wpkt EXCEPT ![w] = 0]
  /\ wpc' = [wpc EXCEPT ![w] = IF wbuf[w].len + 1 >= BufferSize THEN "handoff" ELSE "recv"]
  /\ UNCHANGED <<vals, bufferRing, accounted, tasks, nfail>>
  /\ UNCHANGED pumpAll

\* go c.logBuffer(buffer)
WHandoff(w) ==
  /\ wpc[w] = "handoff"
  /\ tasks' = Append(tasks, NewTask("async", w, wbuf[w], "spawned",
                                    Contents(heap, wbuf[w]), <<>>))
  /\ wpc' = [wpc EXCEPT ![w] = "next"]
  /\ UNCHANGED <<vals, wpkt, wbuf, heap, bufferRing, accounted, nfail>>
  /\ UNCHANGED pumpAll

\* nextBuffer without its default case: a receive that waits for the ring.
WNextBufferFromRing(w) ==
  /\ wpc[w] = "next"
  /\ bufferRing # <<>>
  /\ wbuf' = [wbuf EXCEPT ![w] = Head(bufferRing)]
  /\ bufferRing' = Tail(bufferRing)
  /\ wpc' = [wpc EXCEPT ![w] = "recv"]
  /\ UNCHANGED <<vals, wpkt, heap, accounted, tasks, nfail>>
  /\ UNCHANGED pumpAll

\* buffer = c.nextBuffer(), after the handoff.
WNextBuffer(w) ==
  /\ wpc[w] = "next"
  /\ LET r == nextBuffer(bufferRing, heap)
     IN  /\ wbuf' = [wbuf EXCEPT ![w] = r.buf]
         /\ bufferRing' = r.ring
         /\ heap' = r.heap
  /\ wpc' = [wpc EXCEPT ![w] = "recv"]
  /\ UNCHANGED <<vals, wpkt, accounted, tasks, nfail>>
  /\ UNCHANGED pumpAll

\* The deferred function with a sink: c.Log(buffer) is called.
WFlush(w) ==
  /\ wpc[w] = "flush"
  /\ sink
  /\ tasks' = Append(tasks, NewTask("flush", w, wbuf[w], EnterLog(wbuf[w]),
                                    Contents(heap, wbuf[w]), Contents(heap, wbuf[w])))
  /\ wpc' = [wpc EXCEPT ![w] = "flushing"]
  /\ UNCHANGED <<vals, wpkt, wbuf, heap, bufferRing, accounted, nfail>>
  /\ UNCHANGED pumpAll

\* The deferred function without a sink does nothing; processor returns and
\* wg.Done is called.
WReturnNoSink(w) ==
  /\ wpc[w] = "flush"
  /\ ~sink
  /\ wpc' = [wpc EXCEPT ![w] = "done"]
  /\ UNCHANGED <<vals, wpkt, wbuf, heap, bufferRing, accounted, tasks, nfail>>
  /\ UNCHANGED pumpAll

\* The deferred c.Log(buffer) has returned; processor returns and wg.Done is
\* called.
WReturn(w) ==
  /\ wpc[w] = "flushing"
  /\ \E t \in DOMAIN tasks :
       /\ tasks[t].kind = "flush"
       /\ tasks[t].w = w
       /\ tasks[t].pc = "logret"
  /\ wpc' = [wpc EXCEPT ![w] = "done"]
  /\ UNCHANGED <<vals, wpkt, wbuf, heap, bufferRing, accounted, tasks, nfail>>
  /\ UNCHANGED pumpAll

\* ---- Capture.logBuffer and influxEndpoint.writePackets ----

\* The logBuffer goroutine starts to run: c.Log(b) is called.
TLogBegin(t) ==
  /\ t \in DOMAIN tasks
  /\ tasks[t].pc = "spawned"
  /\ tasks' = [tasks EXCEPT ![t].pc = EnterLog(tasks[t]),
                            ![t].snap = Contents(heap, tasks[t])]
  /\ UNCHANGED <<vals, nfail>>
  /\ UNCHANGED workerVars
  /\ UNCHANGED pumpAll

\* One iteration of the retry loop begins: the pipe is made, the serializer
\* goroutine is started and http.Post is called.
TAttempt(t) ==
  /\ t \in DOMAIN tasks
  /\ tasks[t].pc = "attempt"
  /\ tasks' = [tasks EXCEPT ![t].pc = "post", ![t].sers = Append(@, 0)]
  /\ UNCHANGED <<vals, nfail>>
  /\ UNCHANGED workerVars
  /\ UNCHANGED pumpAll

\* A serializer goroutine reads the next element of data (and writes it to
\* the pipe, or fails to when the pipe has been closed); after the last
\* element it writes the trailer and ends.
TSerialize(t, k) ==
  /\ t \in DOMAIN tasks
  /\ k \in 1..Len(tasks[t].sers)
  /\ LET idx == tasks[t].sers[k] + 1
     IN  tasks' = [tasks EXCEPT ![t].sers =
                     IF idx >= tasks[t].len
                     THEN SubSeq(@, 1, k - 1) \o SubSeq(@, k + 1, Len(@))
                     ELSE [@ EXCEPT ![k] = idx]]
  /\ UNCHANGED <<vals, nfail>>
  /\ UNCHANGED workerVars
  /\ UNCHANGED pumpAll

\* http.Post returns an error: the request body has been closed.
TPostError(t) ==
  /\ t \in DOMAIN tasks
  /\ tasks[t].pc = "post"
  /\ nfail < MaxTransportErrors
  /\ nfail' = nfail + 1
  /\ tasks' = [tasks EXCEPT ![t].pc = "backoff"]
  /\ UNCHANGED vals
  /\ UNCHANGED workerVars
  /\ UNCHANGED pumpAll

\* The wait after a transport error elapses; waitBase doubles; continue.
TBackoff(t) ==
  /\ t \in DOMAIN tasks
  /\ tasks[t].pc = "backoff"
  /\ tasks' = [tasks EXCEPT ![t].i = @ + 1,
                            ![t].pc = IF tasks[t].i + 1 < influxRetryLimit
                                      THEN "attempt" ELSE "logret"]
  /\ UNCHANGED <<vals, nfail>>
  /\ UNCHANGED workerVars
  /\ UNCHANGED pumpAll

\* http.Post returns a response, of any status: writePackets returns.
TPostResponse(t) ==
  /\ t \in DOMAIN tasks
  /\ tasks[t].pc = "post"
  /\ tasks' = [tasks EXCEPT ![t].pc = "logret"]
  /\ UNCHANGED <<vals, nfail>>
  /\ UNCHANGED workerVars
  /\ UNCHANGED pumpAll

\* logBuffer after c.Log has returned: b[:0] goes to the ring, or is dropped.
TRelease(t) ==
  /\ t \in DOMAIN tasks
  /\ tasks[t].kind = "async"
  /\ tasks[t].pc = "logret"
  /\ bufferRing' = release(bufferRing, tasks[t])
  /\ tasks' = [tasks EXCEPT ![t].pc = "done"]
  /\ UNCHANGED <<vals, nfail, wpc, wpkt, wbuf, heap, accounted>>
  /\ UNCHANGED pumpAll

Pump ==
  \/ OpenLive
  \/ OpenLiveError
  \/ SetBPFFilter
  \/ SetBPFFilterError
  \/ StartWorkers
  \/ Interrupt
  \/ NextPacket
  \/ NextPacketEOF
  \/ NextPacketError
  \/ SendPacket
  \/ SelectStop
  \/ ClosePackets
  \/ Wait

Processor(w) ==
  \/ WStart(w)
  \/ WRecv(w)
  \/ WRangeEnd(w)
  \/ WAccount(w)
  \/ WAppend(w)
  \/ WHandoff(w)
  \/ WNextBuffer(w)
  \/ WFlush(w)
  \/ WReturnNoSink(w)
  \/ WReturn(w)

Writer(t) ==
  \/ TLogBegin(t)
  \/ TAttempt(t)
  \/ \E k \in 1..influxRetryLimit : TSerialize(t, k)
  \/ TPostError(t)
  \/ TBackoff(t)
  \/ TPostResponse(t)
  \/ TRelease(t)

Next ==
  \/ Pump
  \/ \E w \in Workers : Processor(w)
  \/ \E t \in TaskIds : Writer(t)

Spec == InitLive /\ [][Next]_vars

\* ---- histories ----

Range(q) == {q[i] : i \in DOMAIN q}

NoDuplicates(q) == \A i, j \in DOMAIN q : i # j => q[i] # q[j]

\* The number of places of the accounting path that hold frame f.
AccountPlaces(f) ==
  Cardinality({i \in DOMAIN packetsCh : packetsCh[i] = f})
  + Cardinality({w \in Workers : wpc[w] = "account" /\ wpkt[w] = f})
  + Cardinality({i \in DOMAIN accounted : accounted[i] = f})

\* C4: every frame sent on packetsCh is received by exactly one processor and
\* passed to c.Account exactly once; when Live has returned, the number of
\* Account calls, which is Total.Packets, is the number of frames sent.
C4_EveryFrameAccountedOnce ==
  /\ NoDuplicates(accounted)
  /\ \A f \in Range(enqueued) : AccountPlaces(f) = 1
  /\ Range(accounted) \subseteq Range(enqueued)
  /\ lpc = "returned" =>
       /\ Len(accounted) = Len(enqueued)
       /\ vals["Total"].Packets = Len(enqueued)

\* Live has returned after an interrupt that cost a frame, with two frames
\* sent before it.
C4_Witness ==
  /\ lpc = "returned"
  /\ Len(enqueued) >= 2
  /\ dropped # <<>>
  /\ vals["Total"].Packets = Len(enqueued)

\* The number of places of the batching path that hold the record of frame f:
\* the channel, a processor between receive and append, a processor's
\* current batch, a batch given to a logBuffer task or to the deferred Log.
BatchPlaces(f) ==
  Cardinality({i \in DOMAIN packetsCh : packetsCh[i] = f})
  + Cardinality({w \in Workers : wpc[w] \in {"account", "append"} /\ wpkt[w] = f})
  + Cardinality({<<w, i>> \in Workers \X (1..BufferSize) :
         /\ wpc[w] \in {"recv", "account", "append", "handoff", "flush"}
         /\ i <= wbuf[w].len
         /\ heap[wbuf[w].arr][i] = f})
  + Cardinality({<<t, i>> \in (DOMAIN tasks) \X (1..BufferSize) :
         /\ i <= Len(tasks[t].handed)
         /\ tasks[t].handed[i] = f})

\* The lengths of the batches c.Log has been called with, summed.
RECURSIVE LoggedLength(_)
LoggedLength(n) ==
  IF n = 0 THEN 0
  ELSE LoggedLength(n - 1) + (IF tasks[n].pc # "spawned" THEN Len(tasks[n].snap) ELSE 0)

\* Live has returned and every logBuffer task has called c.Log.
AllHanded ==
  /\ lpc = "returned"
  /\ \A t \in DOMAIN tasks : tasks[t].pc # "spawned"

\* C5: with a sink, the record of every frame sent on packetsCh is in exactly
\* one place, ends in exactly one batch c.Log is called with, each batch is
\* when Log is called and while Log runs what the processor appended, and
\* once every batch has reached Log the lengths sum to the number of frames.
C5_EveryRecordInOneBatch ==
  sink =>
    /\ \A f \in Range(enqueued) : BatchPlaces(f) = 1
    /\ \A t \in DOMAIN tasks :
         /\ tasks[t].len = Len(tasks[t].handed)
         /\ tasks[t].pc # "spawned" => tasks[t].snap = tasks[t].handed
         /\ tasks[t].pc \notin {"logret", "done"} =>
              Contents(heap, tasks[t]) = tasks[t].handed
    /\ AllHanded => LoggedLength(Len(tasks)) = Len(enqueued)

\* Three frames have gone through: one full batch, written and released, and
\* a residual batch of one record.
C5_Witness ==
  /\ sink
  /\ AllHanded
  /\ Len(enqueued) = 3
  /\ \E t \in DOMAIN tasks : tasks[t].kind = "async" /\ tasks[t].pc = "done"
  /\ \E t \in DOMAIN tasks : tasks[t].kind = "flush" /\ tasks[t].len = 1

\* The tasks that may touch backing array a: a processor holding it as its
\* batch (the deferred Log runs on the processor's own goroutine), an
\* asynchronous logBuffer task until its release, together with the
\* serializer goroutines it has started, and the ring.
Owners(a) ==
  {<<"processor", w>> : w \in {w \in Workers :
       /\ wbuf[w].arr = a
       /\ wpc[w] \in {"recv", "account", "append", "handoff", "flush", "flushing"}}}
  \cup {<<"writer", t>> : t \in {t \in DOMAIN tasks :
       /\ tasks[t].kind = "async"
       /\ tasks[t].arr = a
       /\ (tasks[t].pc # "done" \/ tasks[t].sers # <<>>)}}
  \cup {<<"processor", tasks[t].w>> : t \in {t \in DOMAIN tasks :
       /\ tasks[t].kind = "flush"
       /\ tasks[t].arr = a
       /\ tasks[t].sers # <<>>}}
  \cup {<<"ring", i>> : i \in {i \in DOMAIN bufferRing : bufferRing[i].arr = a}}

\* C6: no batch buffer has two owners at once; in particular a released
\* batch (in the ring or acquired again) has no serializer goroutine of its
\* writer task still reading it.
C6_OneOwnerPerBuffer ==
  \A a \in DOMAIN heap : Cardinality(Owners(a)) <= 1

\* C7: a processor terminates only after the deferred c.Log(buffer) of its
\* residual batch has returned, and it reaches the flush only with the
\* channel closed and drained and no packet in hand.
C7_FlushBeforeTermination ==
  \A w \in Workers :
    /\ wpc[w] \in {"flush", "flushing", "done"} =>
         /\ chClosed
         /\ packetsCh = <<>>
         /\ wpkt[w] = 0
    /\ (sink /\ wpc[w] = "done") =>
         \E t \in DOMAIN tasks :
           /\ tasks[t].kind = "flush"
           /\ tasks[t].w = w
           /\ tasks[t].pc = "logret"
           /\ tasks[t].arr = wbuf[w].arr
           /\ tasks[t].len = wbuf[w].len
           /\ tasks[t].snap = Contents(heap, wbuf[w])

\* A processor has terminated after flushing a partial batch of one record
\* whose write needed a second attempt.
C7_Witness ==
  /\ sink
  /\ \E w \in Workers :
       /\ wpc[w] = "done"
       /\ wbuf[w].len = 1
       /\ \E t \in DOMAIN tasks :
            /\ tasks[t].kind = "flush"
            /\ tasks[t].w = w
            /\ tasks[t].i = 1

\* The state of the orchestrator; an error of OpenLive or SetBPFFilter ends
\* the run while it is still in Init.
Phase(pc) ==
  IF pc \in {"open", "filter", "setup", "failed"} THEN "Init"
  ELSE IF pc \in {"next", "send"} THEN "Running"
  ELSE IF pc \in {"close", "wait"} THEN "Draining"
  ELSE "Stopped"

C8_State ==
  /\ closes <= 1
  /\ chClosed <=> closes = 1
  /\ chClosed => Phase(lpc) \in {"Draining", "Stopped"}
  /\ lpc = "returned" => \A w \in Workers : wpc[w] = "done"

C8_Step ==
  /\ \/ Phase(lpc') = Phase(lpc)
     \/ <<Phase(lpc), Phase(lpc')>> \in
          {<<"Init", "Running">>, <<"Running", "Draining">>, <<"Draining", "Stopped">>}
  /\ closes' # closes => (lpc \notin {"next", "send"} /\ lpc' \notin {"next", "send"})
  /\ chClosed => (enqueued' = enqueued /\ Len(packetsCh') <= Len(packetsCh))

\* The lengths of the residual batches the deferred c.Log was called with,
\* summed over the first n calls of c.Log.
RECURSIVE ResidualLength(_)
ResidualLength(n) ==
  IF n = 0 THEN 0
  ELSE ResidualLength(n - 1) + (IF tasks[n].kind = "flush" THEN tasks[n].len ELSE 0)

\* C15: with a sink, for buffer size B and n frames fed before shutdown the
\* sink writer receives floor(n/B) full batches of length B and residual
\* records totalling n mod B, for any number of workers.
C15_BatchCounts ==
  (sink /\ lpc = "returned") =>
    /\ \A t \in DOMAIN tasks : tasks[t].kind = "async" => tasks[t].len = BufferSize
    /\ Cardinality({t \in DOMAIN tasks : tasks[t].kind = "async"})
         = Len(enqueued) \div BufferSize
    /\ ResidualLength(Len(tasks)) = Len(enqueued) % BufferSize

\* C18: the queue never holds more than BufferSize frames; when an interrupt
\* is pending while the pump is in the select of the send, also with the
\* queue full, the pump can take the stop case, and once out of its loop it
\* can close the queue: neither step needs a worker to dequeue.
C18_StopNotBlockedByFullQueue ==
  /\ Len(packetsCh) <= BufferSize
  /\ (lpc = "send" /\ stop = 1) => ENABLED SelectStop
  /\ lpc = "close" => ENABLED ClosePackets
  /\ (lpc = "send" /\ Len(packetsCh) = BufferSize) => ~ENABLED SendPacket

\* The queue has been closed while full, after an interrupt that found the
\* pump holding a frame, and no worker has dequeued anything.
C18_Witness ==
  /\ chClosed
  /\ Len(packetsCh) = BufferSize
  /\ dropped # <<>>
  /\ accounted = <<>>
  /\ \A w \in Workers : wpkt[w] = 0

\* C8: the orchestrator moves only Init -> Running -> Draining -> Stopped;
\* the channel is closed once and only after the pump loop has exited, no
\* frame is sent on it once it is closed, and Live returns only after every
\* processor has terminated.
C8_OrderlyShutdown == []C8_State /\ [][C8_Step]_vars

\* Live has returned after frames were sent, the channel closed once.
C8_Witness ==
  /\ lpc = "returned"
  /\ closes = 1
  /\ Len(enqueued) >= 2
  /\ \A w \in Workers : wpc[w] = "done"

\* ------------------------------------------------------------------------
\* SpecDNS: reverseDNSMap.add and reverseDNSMap.name.
\* ------------------------------------------------------------------------
\* The most records an answer section holds.
MaxAnswers == 3
\* The number of add calls in a run.
MaxAdds == 2
\* The most iterations the alias walk of add is followed for.
MaxWalk == 4

\* net.IPv4: the 16-byte form of an IPv4 address, as net.ParseIP returns it.
IPv4(a, b, c, d) == Zeros(10) \o <<255, 255, a, b, c, d>>

\* net.IP.To16
To16(ip) ==
  IF Len(ip) = 4 THEN IPv4(ip[1], ip[2], ip[3], ip[4])
  ELSE IF Len(ip) = 16 THEN ip
  ELSE NilIP

\* layers.NewIPEndpoint: the key of an address, in its shortest form.
NewIPEndpoint(ip) ==
  IF To4(ip) # NilIP THEN [typ |-> "IPv4", raw |-> To4(ip)]
  ELSE IF To16(ip) # NilIP THEN [typ |-> "IPv6", raw |-> To16(ip)]
  ELSE InvalidEndpoint

HexDigit(d) ==
  << "0", "1", "2", "3", "4", "5", "6", "7",
     "8", "9", "a", "b", "c", "d", "e", "f" >>[d + 1]

\* appendHex: lower case, no leading zeros.
RECURSIVE HexString(_)
HexString(n) ==
  IF n < 16 THEN HexDigit(n) ELSE HexString(n \div 16) \o HexDigit(n % 16)

\* The eight 16-bit groups of a 16-byte address, indexed from 0.
Groups(ip) == [i \in 0..7 |-> ip[2 * i + 1] * 256 + ip[2 * i + 2]]

\* The end of the run of zero groups that starts at group i.
RECURSIVE ZeroRunEnd(_, _)
ZeroRunEnd(g, i) ==
  IF i < 8 /\ g[i] = 0 THEN ZeroRunEnd(g, i + 1) ELSE i

\* The leftmost longest run [start, end) of two or more zero groups, or
\* <<8, 8>> if there is none.
ZeroRun(g) ==
  LET run == [i \in 0..7 |-> ZeroRunEnd(g, i) - i]
      long == {i \in 0..7 : run[i] >= 2}
      best == {i \in long : \A j \in long :
                 run[j] < run[i] \/ (run[j] = run[i] /\ i <= j)}
  IN  IF long = {} THEN <<8, 8>>
      ELSE LET zs == CHOOSE i \in best : TRUE IN <<zs, zs + run[zs]>>

\* The groups from i on, the run z written as "::".
RECURSIVE String6(_, _, _)
String6(g, i, z) ==
  IF i >= 8 THEN ""
  ELSE IF i = z[1]
       THEN "::" \o (IF z[2] >= 8 THEN ""
                     ELSE HexString(g[z[2]]) \o String6(g, z[2] + 1, z))
       ELSE (IF i > 0 THEN ":" ELSE "") \o HexString(g[i]) \o String6(g, i + 1, z)

\* net.IP.String
IPString(ip) ==
  IF Len(ip) = 0 THEN "<nil>"
  ELSE IF To4(ip) # NilIP
       THEN LET p == To4(ip)
            IN  ToString(p[1]) \o "." \o ToString(p[2]) \o "."
                  \o ToString(p[3]) \o "." \o ToString(p[4])
       ELSE LET g == Groups(ip) IN String6(g, 0, ZeroRun(g))

\* 216.58.216.14 as the 4 bytes of an A record
AddrA == IP4(216, 58, 216, 14)

\* 2607:f8b0:400e:c05::8d
AddrAAAA == <<38, 7, 248, 176, 64, 14, 12, 5, 0, 0, 0, 0, 0, 0, 0, 141>>

\* 123:456:789::abcd
AddrOther == <<1, 35, 4, 86, 7, 137, 0, 0, 0, 0, 0, 0, 0, 0, 171, 205>>

\* The addresses of a run: those of the answers and those looked up.
Addrs == {AddrA, AddrAAAA, AddrOther, IPv4(216, 58, 216, 14), IPv4(1, 2, 3, 4)}

\* The strings of the endpoints of a run, formatted once.
EndpointStrings == [e \in {NewIPEndpoint(ip) : ip \in Addrs} |-> IPString(e.raw)]

\* gopacket.Endpoint.String
EndpointString(e) ==
  IF e \in DOMAIN EndpointStrings THEN EndpointStrings[e] ELSE IPString(e.raw)

\* m[k] = v
Put(m, k, v) == [x \in (DOMAIN m) \cup {k} |-> IF x = k THEN v ELSE m[x]]

\* strings.Join
RECURSIVE Join(_, _)
Join(elems, sep) ==
  IF elems = <<>> THEN ""
  ELSE IF Len(elems) = 1 THEN elems[1]
  ELSE elems[1] \o sep \o Join(Tail(elems), sep)

\* reverseDNSMap.name, on the map r.
name(r, e) == IF e \in DOMAIN r THEN r[e] ELSE EndpointString(e)

\* layers.DNSResourceRecord, reduced to the fields add reads.
DNSResourceRecord(n, t, c, ip, cn) ==
  [Name |-> n, Type |-> t, Class |-> c, IP |-> ip, CNAME |-> cn]

\* The loop body of add's scan without the test of the class.
ScanRecordAnyClass(m, a) ==
  IF a.Type \in {"A", "AAAA"}
  THEN [m EXCEPT !.ips = Put(@, NewIPEndpoint(a.IP), a.Name)]
  ELSE IF a.Type = "CNAME"
       THEN [m EXCEPT !.cnames = Put(@, a.CNAME, a.Name)]
       ELSE m

\* The loop body of add's scan with cnames keyed by the alias.
ScanRecordByAlias(m, a) ==
  IF a.Class # "IN" THEN m
  ELSE IF a.Type \in {"A", "AAAA"}
       THEN [m EXCEPT !.ips = Put(@, NewIPEndpoint(a.IP), a.Name)]
       ELSE IF a.Type = "CNAME"
            THEN [m EXCEPT !.cnames = Put(@, a.Name, a.CNAME)]
            ELSE m

\* The body of `for _, a := range dns.Answers`, on m = [cnames, ips].
ScanRecord(m, a) ==
  IF a.Class # "IN" THEN m
  ELSE IF a.Type \in {"A", "AAAA"}
       THEN [m EXCEPT !.ips = Put(@, NewIPEndpoint(a.IP), a.Name)]
       ELSE IF a.Type = "CNAME"
            THEN [m EXCEPT !.cnames = Put(@, a.CNAME, a.Name)]
            ELSE m

\* The names and addresses of the answers.
NameT == "dl.l.google.com"

NameM1 == "dl.google.com"

NameM2 == "get.google.com"

DNSNames == {NameT, NameM1, NameM2}

\* The records answers are made of: address records of both families, two
\* names for one address, the aliases of a chain, an alias that makes the
\* terminal name and its alias aliases of each other, and a record of class CH.
DNSRecords ==
  { DNSResourceRecord(NameT, "A", "IN", AddrA, ""),
    DNSResourceRecord(NameM1, "A", "IN", AddrA, ""),
    DNSResourceRecord(NameT, "AAAA", "IN", AddrAAAA, ""),
    DNSResourceRecord(NameM2, "A", "CH", AddrA, ""),
    DNSResourceRecord(NameM1, "CNAME", "IN", NilIP, NameT),
    DNSResourceRecord(NameM2, "CNAME", "IN", NilIP, NameM1),
    DNSResourceRecord(NameT, "CNAME", "IN", NilIP, NameM1) }

InitDNS ==
  /\ vals = ZeroVals
  /\ apc = [c \in Callers |-> "idle"]
  /\ am = [c \in Callers |-> NoMeta]
  /\ returned = <<>>
  /\ LiveIdle
  /\ DNSIdle
  /\ ExtraIdle

notDNS == <<acctVars, liveVars, extraVars>>

\* add is called, with any answer section of at most MaxAnswers records:
\* cnames and ips are made.
AddCall ==
  /\ dpc = "idle"
  /\ nadds < MaxAdds
  /\ nadds' = nadds + 1
  /\ dans' = <<>>
  /\ cnames' = EmptyMap
  /\ ips' = EmptyMap
  /\ dpc' = "scan"
  /\ UNCHANGED <<rm, mu, dleft, dip, dn, dnames, bound>>
  /\ UNCHANGED notDNS

\* An iteration of `for _, a := range dns.Answers`, on the next record.
ScanNext ==
  /\ dpc = "scan"
  /\ Len(dans) < MaxAnswers
  /\ \E a \in DNSRecords :
       LET m == ScanRecord([cnames |-> cnames, ips |-> ips], a)
       IN  /\ dans' = Append(dans, a)
           /\ cnames' = m.cnames
           /\ ips' = m.ips
  /\ UNCHANGED <<rm, mu, dpc, dleft, dip, dn, dnames, nadds, bound>>
  /\ UNCHANGED notDNS

\* The range over dns.Answers ends: the answer section has no more records.
ScanEnd ==
  /\ dpc = "scan"
  /\ dpc' = "lock"
  /\ UNCHANGED <<rm, mu, dans, cnames, ips, dleft, dip, dn, dnames, nadds, bound>>
  /\ UNCHANGED notDNS

\* r.mu.Lock()
Lock ==
  /\ dpc = "lock"
  /\ mu = "free"
  /\ rlocks = 0
  /\ mu' = "locked"
  /\ dleft' = DOMAIN ips
  /\ dpc' = "range"
  /\ UNCHANGED <<rm, dans, cnames, ips, dip, dn, dnames, nadds, bound>>
  /\ UNCHANGED notDNS

\* `for ip, n := range ips`: the next key, in the order the map yields.
RangeIps ==
  /\ dpc = "range"
  /\ \E e \in dleft :
       /\ dip' = e
       /\ dn' = ips[e]
       /\ dleft' = dleft \ {e}
  /\ dnames' = <<>>
  /\ dpc' = "walk"
  /\ UNCHANGED <<rm, mu, dans, cnames, ips, nadds, bound>>
  /\ UNCHANGED notDNS

\* An iteration of the walk whose post statement finds an alias of n.
WalkAlias ==
  /\ dpc = "walk"
  /\ Len(dnames) < MaxWalk
  /\ dn \in DOMAIN cnames
  /\ dnames' = Append(dnames, dn)
  /\ dn' = cnames[dn]
  /\ UNCHANGED <<rm, mu, dpc, dans, cnames, ips, dleft, dip, nadds, bound>>
  /\ UNCHANGED notDNS

\* An iteration of the walk whose post statement finds no alias of n.
WalkEnd ==
  /\ dpc = "walk"
  /\ Len(dnames) < MaxWalk
  /\ dn \notin DOMAIN cnames
  /\ dnames' = Append(dnames, dn)
  /\ dn' = ""
  /\ dpc' = "store"
  /\ UNCHANGED <<rm, mu, dans, cnames, ips, dleft, dip, nadds, bound>>
  /\ UNCHANGED notDNS

\* The store into a map that add has made anew.
StoreIntoNewMap ==
  /\ dpc = "store"
  /\ rm' = Put(EmptyMap, dip, Join(dnames, ","))
  /\ bound' = bound \cup {dip}
  /\ dpc' = "range"
  /\ UNCHANGED <<mu, dans, cnames, ips, dleft, dip, dn, dnames, nadds>>
  /\ UNCHANGED notDNS

\* r.rm[ip] = strings.Join(names, ",")
Store ==
  /\ dpc = "store"
  /\ rm' = Put(rm, dip, Join(dnames, ","))
  /\ bound' = bound \cup {dip}
  /\ dpc' = "range"
  /\ UNCHANGED <<mu, dans, cnames, ips, dleft, dip, dn, dnames, nadds>>
  /\ UNCHANGED notDNS

\* r.mu.Unlock(), and add returns: its locals are gone.
Unlock ==
  /\ dpc = "range"
  /\ dleft = {}
  /\ mu' = "free"
  /\ dpc' = "idle"
  /\ cnames' = EmptyMap
  /\ ips' = EmptyMap
  /\ dip' = InvalidEndpoint
  /\ dn' = ""
  /\ dnames' = <<>>
  /\ UNCHANGED <<rm, dans, dleft, nadds, bound>>
  /\ UNCHANGED notDNS

NextDNS ==
  \/ AddCall
  \/ ScanNext
  \/ ScanEnd
  \/ Lock
  \/ RangeIps
  \/ WalkAlias
  \/ WalkEnd
  \/ Store
  \/ Unlock

SpecDNS == InitDNS /\ [][NextDNS]_vars

\* ---- the claims on the reverse DNS map ----

\* An add call has returned and no other is in progress: dans is its answer.
AddReturned == dpc = "idle" /\ nadds > 0

IsAddress(a) == a.Class = "IN" /\ a.Type \in {"A", "AAAA"}

IsAlias(a) == a.Class = "IN" /\ a.Type = "CNAME"

\* Addresses as net.ParseIP gives them, with the text they are parsed from.
Canonical ==
  { [ip |-> IPv4(1, 2, 3, 4), text |-> "1.2.3.4"],
    [ip |-> IPv4(216, 58, 216, 14), text |-> "216.58.216.14"],
    [ip |-> AddrAAAA, text |-> "2607:f8b0:400e:c05::8d"],
    [ip |-> AddrOther, text |-> "123:456:789::abcd"] }

\* An endpoint no add has bound has its canonical string as its name.
UnboundIsCanonical ==
  \A p \in Canonical :
    NewIPEndpoint(p.ip) \notin bound => name(rm, NewIPEndpoint(p.ip)) = p.text

\* C9 as stated: for every class-IN A or AAAA record {N, I} of the answer,
\* once add has returned name(endpoint(I)) = N; the name of an endpoint no
\* add has bound is its canonical string.
C9_NameOfEveryAddressRecord ==
  /\ AddReturned =>
       \A i \in DOMAIN dans :
         IsAddress(dans[i]) => name(rm, NewIPEndpoint(dans[i].IP)) = dans[i].Name
  /\ UnboundIsCanonical

\* Record i is the last class-IN address record of the answer for its
\* address, and no class-IN CNAME record of the answer has its name as target.
PlainBinding(answers, i) ==
  /\ IsAddress(answers[i])
  /\ \A j \in DOMAIN answers :
       (j > i /\ IsAddress(answers[j]))
         => NewIPEndpoint(answers[j].IP) # NewIPEndpoint(answers[i].IP)
  /\ \A j \in DOMAIN answers :
       IsAlias(answers[j]) => answers[j].CNAME # answers[i].Name

\* C9: for a class-IN A or AAAA record {N, I} of the answer that is the last
\* such record for I, N being the target of no class-IN CNAME record of the
\* answer, once add has returned name(endpoint(I)) = N; the name of an
\* endpoint no add has bound is its canonical string.
C9_NameOfAddressRecord ==
  /\ AddReturned =>
       \A i \in DOMAIN dans :
         PlainBinding(dans, i) => name(rm, NewIPEndpoint(dans[i].IP)) = dans[i].Name
  /\ UnboundIsCanonical

\* add has returned for an answer with an address record bound to its name
\* alone and an address record bound to a chain, the 16-byte form of the A
\* record's address finds its binding, and an address is still unbound.
C9_Witness ==
  /\ AddReturned
  /\ \E i \in DOMAIN dans :
       /\ PlainBinding(dans, i)
       /\ dans[i].IP = AddrA
       /\ name(rm, NewIPEndpoint(IPv4(216, 58, 216, 14))) = dans[i].Name
  /\ \E i \in DOMAIN dans :
       /\ IsAddress(dans[i])
       /\ name(rm, NewIPEndpoint(dans[i].IP)) # dans[i].Name
  /\ NewIPEndpoint(IPv4(1, 2, 3, 4)) \notin bound
  /\ name(rm, NewIPEndpoint(IPv4(1, 2, 3, 4))) = "1.2.3.4"

\* The answer binds endpoint e to terminal t and its class-IN CNAME records
\* form the chain t -> m1 -> m2: m1 is the alias of t, m2 the alias of m1,
\* and m2 has no alias.
Chain(answers, e, t, m1, m2) ==
  /\ Cardinality({t, m1, m2}) = 3
  /\ \E i \in DOMAIN answers :
       /\ IsAddress(answers[i])
       /\ NewIPEndpoint(answers[i].IP) = e
  /\ \A i \in DOMAIN answers :
       (IsAddress(answers[i]) /\ NewIPEndpoint(answers[i].IP) = e)
         => answers[i].Name = t
  /\ \E i \in DOMAIN answers :
       IsAlias(answers[i]) /\ answers[i].CNAME = t /\ answers[i].Name = m1
  /\ \E i \in DOMAIN answers :
       IsAlias(answers[i]) /\ answers[i].CNAME = m1 /\ answers[i].Name = m2
  /\ \A i \in DOMAIN answers :
       IsAlias(answers[i]) =>
         /\ answers[i].CNAME = t => answers[i].Name = m1
         /\ answers[i].CNAME = m1 => answers[i].Name = m2
         /\ answers[i].CNAME # m2

Endpoints == {NewIPEndpoint(a.IP) : a \in {r \in DNSRecords : r.IP # NilIP}}

\* C10: for an answer with A{ip=I, name=T} and class-IN CNAME records forming
\* the chain T -> M1 -> M2, once add has returned name(endpoint(I)) is
\* "T,M1,M2", in whatever order the records are in the answer.
C10_ChainTerminalFirst ==
  AddReturned =>
    \A e \in Endpoints : \A t, m1, m2 \in DNSNames :
      Chain(dans, e, t, m1, m2) => name(rm, e) = t \o "," \o m1 \o "," \o m2

\* add has returned for the answer that lists the outer alias first, the
\* inner alias next and the A record last.
C10_Witness ==
  /\ AddReturned
  /\ Len(dans) = 3
  /\ dans[1] = DNSResourceRecord(NameM2, "CNAME", "IN", NilIP, NameM1)
  /\ dans[2] = DNSResourceRecord(NameM1, "CNAME", "IN", NilIP, NameT)
  /\ dans[3] = DNSResourceRecord(NameT, "A", "IN", AddrA, "")
  /\ Chain(dans, NewIPEndpoint(AddrA), NameT, NameM1, NameM2)
  /\ name(rm, NewIPEndpoint(AddrA)) = "dl.l.google.com,dl.google.com,get.google.com"

\* ------------------------------------------------------------------------
\* SpecRW: add together with the readers of the map: name, which holds the
\* read lock, and len, which the reverse-dns-map-size probe calls.
\* ------------------------------------------------------------------------
notRW == <<acctVars, liveVars, dnsVars, namesVars, writeVars, mainVars, laterVars>>

\* name: r.mu.RLock()
NameRLock ==
  /\ npc = "idle"
  /\ mu = "free"
  /\ rlocks' = rlocks + 1
  /\ npc' = "lookup"
  /\ UNCHANGED lenpc
  /\ UNCHANGED notRW

\* name: the lookup in r.rm, the deferred r.mu.RUnlock() and the return.
NameRUnlock ==
  /\ npc = "lookup"
  /\ rlocks' = rlocks - 1
  /\ npc' = "idle"
  /\ UNCHANGED lenpc
  /\ UNCHANGED notRW

\* len is called: it takes no lock and reads len(r.rm).
LenCall ==
  /\ lenpc = "idle"
  /\ lenpc' = "reading"
  /\ UNCHANGED <<rlocks, npc>>
  /\ UNCHANGED notRW

\* len returns.
LenReturn ==
  /\ lenpc = "reading"
  /\ lenpc' = "idle"
  /\ UNCHANGED <<rlocks, npc>>
  /\ UNCHANGED notRW

NextRW ==
  \/ AddCall
  \/ ScanNext
  \/ ScanEnd
  \/ Lock
  \/ RangeIps
  \/ WalkAlias
  \/ WalkEnd
  \/ Store
  \/ Unlock
  \/ NameRLock
  \/ NameRUnlock
  \/ LenCall
  \/ LenReturn

SpecRW == InitDNS /\ [][NextRW]_vars

\* C12: the readers name, names and len overlap only with each other: while
\* an add holds the map for writing, no reader is accessing the map.
C12_AddExcludesReaders ==
  mu = "locked" => (rlocks = 0 /\ npc = "idle" /\ lenpc = "idle")

\* ------------------------------------------------------------------------
\* SpecNames: the enrichment of Capture.processor: the loop over the decoded
\* layers of each packet, with revDNS.names and revDNS.add on the shared map.
\* ------------------------------------------------------------------------
\* A captured frame, reduced to what the processor reads: its addresses, the
\* DNS answer section if a DNS layer decodes, and the layer types in the order
\* DecodeLayers reports them, outermost first.
Frame(src, dst, layers, answers) ==
  [SrcIP |-> src, DstIP |-> dst, Layers |-> layers, Answers |-> answers]

\* The frames of a capture: a DNS answer from a resolver binding NameT to
\* AddrA, a TCP segment sent from AddrA, a DNS answer sent from AddrA that
\* binds AddrA itself, and a DNS answer with an alias.
FrameKinds ==
  { Frame(IP4(8, 8, 8, 8), IP4(10, 0, 0, 1), <<"Ethernet", "IPv4", "UDP", "DNS">>,
          <<DNSResourceRecord(NameT, "A", "IN", AddrA, "")>>),
    Frame(AddrA, IP4(10, 0, 0, 1), <<"Ethernet", "IPv4", "TCP">>, <<>>),
    Frame(AddrA, IP4(10, 0, 0, 1), <<"Ethernet", "IPv4", "UDP", "DNS">>,
          <<DNSResourceRecord(NameT, "A", "IN", AddrA, "")>>),
    Frame(AddrAAAA, IP6(253, 0, 2), <<"Ethernet", "IPv6", "UDP", "DNS">>,
          <<DNSResourceRecord(NameM1, "CNAME", "IN", NilIP, NameT),
            DNSResourceRecord(NameT, "AAAA", "IN", AddrAAAA, "")>>) }

\* The Metadata b of the loop body, reduced to addresses, names and V6.
NamedMeta(src, dst, sn, dn_, v6) ==
  [SrcIP |-> src, DstIP |-> dst, SrcName |-> sn, DstName |-> dn_, V6 |-> v6]

ZeroNamedMeta == NamedMeta(NilIP, NilIP, "", "", FALSE)

\* The endpoints of ip4.NetworkFlow() / ip6.NetworkFlow().
FlowEndpoint(layer, ip) == [typ |-> layer, raw |-> ip]

\* The scan of add over a whole answer section.
RECURSIVE ScanAll(_, _)
ScanAll(m, answers) ==
  IF answers = <<>> THEN m
  ELSE ScanAll(ScanRecord(m, Head(answers)), Tail(answers))

\* The alias walk of add from name n, followed for MaxWalk iterations.
RECURSIVE WalkAll(_, _, _)
WalkAll(cn, n, names) ==
  IF Len(names) >= MaxWalk THEN names
  ELSE IF n \in DOMAIN cn THEN WalkAll(cn, cn[n], Append(names, n))
  ELSE Append(names, n)

\* add run to completion on map r: the map when add unlocks.
addAll(r, answers) ==
  LET m == ScanAll([cnames |-> EmptyMap, ips |-> EmptyMap], answers)
  IN  [e \in (DOMAIN r) \cup (DOMAIN m.ips) |->
         IF e \in DOMAIN m.ips THEN Join(WalkAll(m.cnames, m.ips[e], <<>>), ",")
         ELSE r[e]]

\* The frames a run delivers, in capture order.
Captures == UNION {[1..n -> FrameKinds] : n \in 1..MaxFrames}

InitNames ==
  /\ vals = ZeroVals
  /\ apc = [c \in Callers |-> "idle"]
  /\ am = [c \in Callers |-> NoMeta]
  /\ returned = <<>>
  /\ LiveIdle
  /\ DNSIdle
  /\ RWIdle
  /\ WriteIdle
  /\ MainIdle
  /\ LaterIdle
  /\ nframes \in Captures
  /\ nq = [i \in 1..Len(nframes) |-> i]
  /\ nwpc = [w \in Workers |-> "recv"]
  /\ nwi = [w \in Workers |-> 0]
  /\ nwl = [w \in Workers |-> 0]
  /\ nwb = [w \in Workers |-> ZeroNamedMeta]
  /\ emitted = EmptyMap

\* What no step of the enrichment changes.
notNames == <<acctVars, liveVars, rwVars, writeVars, mainVars, laterVars, mu, dpc, dans, cnames, ips, dleft, dip, dn,
              dnames, nadds, bound, nframes>>

\* The layer the loop over decoded is at.
Layer(w) == nframes[nwi[w]].Layers[nwl[w]]

\* `for packet := range packetsCh` receives the next packet; DecodeLayers
\* and b := Metadata{...}.
NRecv(w) ==
  /\ nwpc[w] = "recv"
  /\ nq # <<>>
  /\ nwi' = [nwi EXCEPT ![w] = Head(nq)]
  /\ nq' = Tail(nq)
  /\ nwl' = [nwl EXCEPT ![w] = 1]
  /\ nwb' = [nwb EXCEPT ![w] = ZeroNamedMeta]
  /\ nwpc' = [nwpc EXCEPT ![w] = "layer"]
  /\ UNCHANGED <<rm, emitted>>
  /\ UNCHANGED notNames

\* case LayerTypeIPv6 / LayerTypeIPv4: the addresses, V6, and the first half
\* of revDNS.names: name(src) under the read lock.
NLayerIP(w) ==
  /\ nwpc[w] = "layer"
  /\ nwl[w] <= Len(nframes[nwi[w]].Layers)
  /\ Layer(w) \in {"IPv4", "IPv6"}
  /\ nwb' = [nwb EXCEPT ![w] =
       NamedMeta(nframes[nwi[w]].SrcIP, nframes[nwi[w]].DstIP,
                 name(rm, FlowEndpoint(Layer(w), nframes[nwi[w]].SrcIP)),
                 @.DstName, Layer(w) = "IPv6" \/ @.V6)]
  /\ nwpc' = [nwpc EXCEPT ![w] = "dst"]
  /\ UNCHANGED <<rm, nq, nwi, nwl, emitted>>
  /\ UNCHANGED notNames

\* The second half of revDNS.names: name(dst) under the read lock.
NNameDst(w) ==
  /\ nwpc[w] = "dst"
  /\ nwb' = [nwb EXCEPT ![w].DstName =
       name(rm, FlowEndpoint(Layer(w), nframes[nwi[w]].DstIP))]
  /\ nwl' = [nwl EXCEPT ![w] = @ + 1]
  /\ nwpc' = [nwpc EXCEPT ![w] = "layer"]
  /\ UNCHANGED <<rm, nq, nwi, emitted>>
  /\ UNCHANGED notNames

\* case LayerTypeDNS: c.revDNS.add(&dns), from Lock to Unlock.
NLayerDNS(w) ==
  /\ nwpc[w] = "layer"
  /\ nwl[w] <= Len(nframes[nwi[w]].Layers)
  /\ Layer(w) = "DNS"
  /\ rm' = addAll(rm, nframes[nwi[w]].Answers)
  /\ nwl' = [nwl EXCEPT ![w] = @ + 1]
  /\ UNCHANGED <<nq, nwpc, nwi, nwb, emitted>>
  /\ UNCHANGED notNames

\* The other layers: no case of the switch, or the ports.
NLayerOther(w) ==
  /\ nwpc[w] = "layer"
  /\ nwl[w] <= Len(nframes[nwi[w]].Layers)
  /\ Layer(w) \in {"Ethernet", "TCP", "UDP"}
  /\ nwl' = [nwl EXCEPT ![w] = @ + 1]
  /\ UNCHANGED <<rm, nq, nwpc, nwi, nwb, emitted>>
  /\ UNCHANGED notNames

\* The loop over decoded has ended: c.Account(&b), and b goes to the batch.
NEmit(w) ==
  /\ nwpc[w] = "layer"
  /\ nwl[w] > Len(nframes[nwi[w]].Layers)
  /\ emitted' = Put(emitted, nwi[w], nwb[w])
  /\ nwpc' = [nwpc EXCEPT ![w] = "recv"]
  /\ UNCHANGED <<rm, nq, nwi, nwl, nwb>>
  /\ UNCHANGED notNames

NextNames ==
  \E w \in Workers :
    \/ NRecv(w)
    \/ NLayerIP(w)
    \/ NNameDst(w)
    \/ NLayerDNS(w)
    \/ NLayerOther(w)
    \/ NEmit(w)

SpecNames == InitNames /\ [][NextNames]_vars

\* What the answers of frame f bind, on an empty map.
Learned(f) == addAll(EmptyMap, f.Answers)

\* C13: for a frame in which a DNS layer decodes, add is called with its
\* answer before the frame's own names are resolved: the names in the
\* frame's Metadata reflect the bindings learned from that same frame.
C13_AddBeforeOwnNames ==
  \A i \in DOMAIN emitted :
    LET f == nframes[i]
        s == NewIPEndpoint(f.SrcIP)
        d == NewIPEndpoint(f.DstIP)
    IN  /\ s \in DOMAIN Learned(f) => emitted[i].SrcName = Learned(f)[s]
        /\ d \in DOMAIN Learned(f) => emitted[i].DstName = Learned(f)[d]

\* C14: with the worker pool running, if a frame with a DNS answer binding
\* name N to address I is enqueued immediately before a frame whose source is
\* I, the Metadata of the second frame has SrcName = N and DstName the
\* canonical string of its unbound destination.
C14_NextFrameSeesBinding ==
  \A i \in DOMAIN emitted :
    ( /\ i > 1
      /\ nframes[i].Layers = <<"Ethernet", "IPv4", "TCP">>
      /\ nframes[i].DstIP = IP4(10, 0, 0, 1)
      /\ NewIPEndpoint(nframes[i].SrcIP) \in DOMAIN Learned(nframes[i - 1]) )
    => /\ emitted[i].SrcName = Learned(nframes[i - 1])[NewIPEndpoint(nframes[i].SrcIP)]
       /\ emitted[i].DstName = "10.0.0.1"

\* ------------------------------------------------------------------------
\* SpecWrite: one call of influxEndpoint.writePackets: the retry loop, the
\* outcome of each http.Post and the waits, in milliseconds.
\* ------------------------------------------------------------------------
\* waitBase := 100 * time.Millisecond
waitBaseInit == 100

\* The status codes a response carries.
Statuses == {204, 500}

\* What the i-th http.Post of the call (from 1) returns from a sink whose
\* first `fails` requests fail on transport and which answers `status` after.
PostOutcome(fails, status, i) == IF i <= fails THEN "error" ELSE ToString(status)

\* rand.Int63n(int64(waitBase)): values of [0, waitBase).
Jitters(base) == {0, base \div 2, base - 1}

\* The loop condition with one more turn.
LoopCondInclusive(i) == i <= influxRetryLimit

\* The condition of `for i := 0; i < influxRetryLimit; i++`.
LoopCond(i) == i < influxRetryLimit

\* The base growing by its initial value.
NextWaitBaseLinear(base) == base + waitBaseInit

\* waitBase *= 2
NextWaitBase(base) == base * 2

InitWrite ==
  /\ vals = ZeroVals
  /\ apc = [c \in Callers |-> "idle"]
  /\ am = [c \in Callers |-> NoMeta]
  /\ returned = <<>>
  /\ LiveIdle
  /\ DNSIdle
  /\ RWIdle
  /\ NamesIdle
  /\ MainIdle
  /\ LaterIdle
  /\ ppc = "entry"
  /\ plen \in 0..BufferSize
  /\ pfails \in 0..(influxRetryLimit + 1)
  /\ pstatus \in Statuses
  /\ pi = 0
  /\ pbase = 0
  /\ posts = <<>>
  /\ waits = <<>>

notWrite == <<acctVars, liveVars, dnsVars, rwVars, namesVars, mainVars, laterVars, plen, pfails,
              pstatus>>

\* `if len(data) == 0 { return }`, else waitBase and i are initialised.
PEnter ==
  /\ ppc = "entry"
  /\ ppc' = IF EnterLog([len |-> plen]) = "logret" THEN "returned" ELSE "loop"
  /\ pbase' = IF plen = 0 THEN pbase ELSE waitBaseInit
  /\ UNCHANGED <<pi, posts, waits>>
  /\ UNCHANGED notWrite

\* The loop condition holds: the pipe, the serializer and http.Post.
PPost ==
  /\ ppc = "loop"
  /\ LoopCond(pi)
  /\ posts' = Append(posts, PostOutcome(pfails, pstatus, Len(posts) + 1))
  /\ ppc' = "posted"
  /\ UNCHANGED <<pi, pbase, waits>>
  /\ UNCHANGED notWrite

\* The loop condition fails: writePackets returns, the batch is dropped.
PGiveUp ==
  /\ ppc = "loop"
  /\ ~LoopCond(pi)
  /\ ppc' = "returned"
  /\ UNCHANGED <<pi, pbase, posts, waits>>
  /\ UNCHANGED notWrite

\* err != nil: the wait waitBase + rand.Int63n(waitBase) begins.
PError ==
  /\ ppc = "posted"
  /\ posts[Len(posts)] = "error"
  /\ \E j \in Jitters(pbase) : waits' = Append(waits, pbase + j)
  /\ ppc' = "waiting"
  /\ UNCHANGED <<pi, pbase, posts>>
  /\ UNCHANGED notWrite

\* The timer fires: waitBase *= 2, continue, i++.
PWaited ==
  /\ ppc = "waiting"
  /\ pbase' = NextWaitBase(pbase)
  /\ pi' = pi + 1
  /\ ppc' = "loop"
  /\ UNCHANGED <<posts, waits>>
  /\ UNCHANGED notWrite

\* A response of any status: it is logged and writePackets returns.
PResponse ==
  /\ ppc = "posted"
  /\ posts[Len(posts)] # "error"
  /\ ppc' = "returned"
  /\ UNCHANGED <<pi, pbase, posts, waits>>
  /\ UNCHANGED notWrite

NextWrite ==
  \/ PEnter
  \/ PPost
  \/ PGiveUp
  \/ PError
  \/ PWaited
  \/ PResponse

SpecWrite == InitWrite /\ [][NextWrite]_vars

Min(a, b) == IF a <= b THEN a ELSE b

\* C16: one write call makes no POST for an empty batch and otherwise
\* min(5, k) POSTs, k the index of the first attempt that gets an HTTP
\* response of any status: a response ends the call, transport failures are
\* retried, and after 5 of them the call returns.
C16_AttemptCount ==
  /\ Len(posts) <= (IF plen = 0 THEN 0 ELSE Min(5, pfails + 1))
  /\ ppc = "returned" =>
       Len(posts) = (IF plen = 0 THEN 0 ELSE Min(5, pfails + 1))
  /\ \A i \in DOMAIN posts : posts[i] # "error" => i = Len(posts)

\* The call has returned after fail, fail, 204: exactly three attempts.
C16_Witness ==
  /\ ppc = "returned"
  /\ plen > 0
  /\ posts = <<"error", "error", "204">>

\* The waits of a sequence, summed.
RECURSIVE SumSeq(_)
SumSeq(q) == IF q = <<>> THEN 0 ELSE Head(q) + SumSeq(Tail(q))

\* C17: the wait after the k-th transport failure of a call, k = 1..5, is at
\* least 100 * 2^(k-1) ms and less than twice that; two failures followed by
\* a response cost at least 300 ms and less than 600 ms.
C17_BackoffBounds ==
  /\ Len(waits) <= 5
  /\ \A k \in DOMAIN waits :
       /\ waits[k] >= 100 * Pow2(k - 1)
       /\ waits[k] < 2 * 100 * Pow2(k - 1)
  /\ (ppc = "returned" /\ Len(posts) = 3 /\ posts[3] # "error") =>
       (SumSeq(waits) >= 300 /\ SumSeq(waits) < 600)

\* Five transport failures: the fifth wait, of more than 1600 ms, has been
\* taken and the call has returned.
C17_Witness ==
  /\ Len(waits) = 5
  /\ waits[5] > 1600
  /\ ppc = "returned"

\* ------------------------------------------------------------------------
\* SpecMain: main without -influx: the goroutine of http.ListenAndServe,
\* c.Live() and the end of the process.  FairMain adds the scheduling of the
\* goroutines; the source and the operator are not obliged to act.
\* ------------------------------------------------------------------------
InitMain ==
  /\ vals = ZeroVals
  /\ apc = [c \in Callers |-> "idle"]
  /\ am = [c \in Callers |-> NoMeta]
  /\ returned = <<>>
  /\ lpc = "open"
  /\ sink = FALSE
  /\ stop = 0
  /\ packetsCh = <<>>
  /\ chClosed = FALSE
  /\ cur = 0
  /\ nread = 0
  /\ wpc = [w \in Workers |-> "unborn"]
  /\ wpkt = [w \in Workers |-> 0]
  /\ wbuf = [w \in Workers |-> [arr |-> 0, len |-> 0]]
  /\ heap = <<>>
  /\ bufferRing = <<>>
  /\ tasks = <<>>
  /\ nfail = 0
  /\ enqueued = <<>>
  /\ dropped = <<>>
  /\ accounted = <<>>
  /\ closes = 0
  /\ DNSIdle
  /\ RWIdle
  /\ NamesIdle
  /\ WriteIdle
  /\ LaterIdle
  /\ hpc = "listen"
  /\ exit = "running"

notMain == <<acctVars, liveVars, dnsVars, rwVars, namesVars, writeVars, laterVars>>

\* http.ListenAndServe binds the port and serves.
ListenServe ==
  /\ hpc = "listen"
  /\ exit = "running"
  /\ hpc' = "serving"
  /\ UNCHANGED exit
  /\ UNCHANGED notMain

\* http.ListenAndServe returns an error: log.Print, and the goroutine ends.
ListenError ==
  /\ hpc = "listen"
  /\ exit = "running"
  /\ hpc' = "logged"
  /\ UNCHANGED exit
  /\ UNCHANGED notMain

\* c.Live() has returned an error: panic(err), exit status 2.
MainPanic ==
  /\ lpc = "failed"
  /\ exit = "running"
  /\ exit' = "panic"
  /\ UNCHANGED hpc
  /\ UNCHANGED notMain

\* c.Live() has returned nil: main returns, exit status 0.
MainReturn ==
  /\ lpc = "returned"
  /\ exit = "running"
  /\ exit' = "zero"
  /\ UNCHANGED hpc
  /\ UNCHANGED notMain

\* The steps of a processor when c.Log is nil.
ProcessorNoSink(w) ==
  \/ WStart(w)
  \/ WRecv(w)
  \/ WRangeEnd(w)
  \/ WAccount(w)
  \/ WReturnNoSink(w)

NextMain ==
  \/ ListenServe
  \/ ListenError
  \/ MainPanic
  \/ MainReturn
  \/ Pump
  \/ \E w \in Workers : ProcessorNoSink(w)

SpecMain == InitMain /\ [][NextMain]_vars

\* The scheduler runs every goroutine that can take a step: the select of
\* the pump, its close and wg.Wait, the processors, the listener and main.
\* Nothing obliges the source to deliver a frame or the operator to interrupt.
FairMain ==
  /\ SpecMain
  /\ WF_vars(SendPacket \/ SelectStop)
  /\ WF_vars(OpenLive \/ OpenLiveError)
  /\ WF_vars(SetBPFFilter \/ SetBPFFilterError)
  /\ WF_vars(StartWorkers)
  /\ WF_vars(ClosePackets)
  /\ WF_vars(Wait)
  /\ WF_vars(ListenServe \/ ListenError)
  /\ WF_vars(MainPanic \/ MainReturn)
  /\ \A w \in Workers : WF_vars(ProcessorNoSink(w))

\* C19: after an interrupt is delivered while the orchestrator is Running,
\* the pump eventually leaves its loop and closes the packet queue, whatever
\* the source is doing.
C19_InterruptStopsPump ==
  (stop = 1 /\ Phase(lpc) = "Running") ~> chClosed

\* C20: a failure of opening the interface, of installing the filter or of
\* binding the HTTP port is fatal: the process ends with a non-zero status
\* instead of running the capture, and no worker is started after a failure
\* of open or filter.
C20_StartupFailureFatal ==
  /\ (hpc = "logged" /\ exit # "running") => exit = "panic"
  /\ (lpc = "failed" /\ exit # "running") => exit = "panic"
  /\ lpc = "failed" => \A w \in Workers : wpc[w] = "unborn"

\* C11: add terminates for every answer: the alias walk detects a cycle of
\* CNAME records and stops, so it never comes to append a name it has
\* appended before, and the lock is released.
C11_WalkStopsAtCycle ==
  dpc = "walk" => \A i \in DOMAIN dnames : dnames[i] # dn

\* ------------------------------------------------------------------------
\* SpecClass: the -localnet block of main, then calls of packets.IsLocal,
\* packets.local, dashboard.isLocal and dashboard.AddPacket on addresses
\* drawn from ClassIPs.
\* ------------------------------------------------------------------------

\* Addresses at and around the edges of every range, the nil IP, and
\* addresses inside and outside the range of LocalnetFlags.
ClassIPs ==
  { NilIP,
    IP4(10, 0, 0, 1), IP4(10, 255, 255, 255), IP4(9, 255, 255, 255), IP4(11, 0, 0, 0),
    IP4(172, 16, 0, 0), IP4(172, 31, 255, 255), IP4(172, 15, 255, 255), IP4(172, 32, 0, 0),
    IP4(192, 168, 1, 2), IP4(192, 169, 0, 0),
    IP4(169, 254, 1, 1), IP4(169, 253, 255, 255),
    IP4(0, 0, 0, 0), IP4(0, 0, 0, 1),
    IP4(255, 255, 255, 255), IP4(255, 255, 255, 254),
    IP4(8, 8, 8, 8), IPv4(10, 0, 0, 1), IPv4(8, 8, 8, 8),
    IP4(100, 64, 0, 5), IP4(100, 127, 255, 255), IP4(100, 128, 0, 0), IP4(100, 63, 255, 255),
    IP6(253, 0, 2), IP6(252, 0, 1), IP6(254, 128, 1), IP6(254, 191, 1), IP6(254, 192, 1),
    IP6(32, 1, 1) }

\* The values of -localnet: unset, two spellings of one netblock, not a CIDR.
LocalnetFlags == {"", "100.64.0.0/10", "100.64.0.5/10", "localnet"}

\* net.ParseCIDR on the values of LocalnetFlags: the netblock is the address
\* masked by the prefix; an error leaves the *net.IPNet nil.
ParseCIDR(s) ==
  IF s \in {"100.64.0.0/10", "100.64.0.5/10"} THEN CIDR(IP4(100, 64, 0, 0), 10) ELSE NoNet

\* packets.IsLocal without its LocalNetblock test.
IsLocalStdOnly(ip) ==
  \E i \in 1..Len(stdLocalNets) : Contains(stdLocalNets[i], ip)

\* packets.IsLocal; stdLocalNets of package packets lists the same netblocks
\* in the same order as the one of package dashboard.
IsLocal(ip) ==
  \/ (pktNet # NoNet /\ Contains(pktNet, ip))
  \/ \E i \in 1..Len(stdLocalNets) : Contains(stdLocalNets[i], ip)

\* local preferring its second argument.
localSecond(a, b) == IF IsLocal(b) THEN b ELSE a

\* packets.local
local(a, b) == IF IsLocal(a) THEN a ELSE b

InitClass ==
  /\ vals = ZeroVals
  /\ apc = [c \in 1..NumCallers |-> "idle"]
  /\ am = [c \in 1..NumCallers |-> NoMeta]
  /\ returned = <<>>
  /\ LiveIdle
  /\ DNSIdle
  /\ RWIdle
  /\ NamesIdle
  /\ WriteIdle
  /\ MainIdle
  /\ PoolIdle
  /\ LayersIdle
  /\ SharedIdle
  /\ localnet \in LocalnetFlags
  /\ pktNet = NoNet
  /\ cpc = "flag"
  /\ ip1 \in ClassIPs
  /\ ip2 \in ClassIPs
  /\ cret = {}

notClass == <<apc, am, returned, liveVars, dnsVars, rwVars, namesVars, writeVars, mainVars,
              poolVars, layersVars, sharedVars, localnet, ip1, ip2>>

\* main: `if *localNetblock != ""`: ParseCIDR, an error is printed and the
\* (nil) result assigned all the same; packets.LocalNetblock = cidr.
ParseLocalnet ==
  /\ cpc = "flag"
  /\ pktNet' = IF localnet # "" THEN ParseCIDR(localnet) ELSE pktNet
  /\ cpc' = "ready"
  /\ UNCHANGED <<vals, cret>>
  /\ UNCHANGED notClass

Returned(fn) == \E r \in cret : r.fn = fn

CallRecord(fn, b, ip) == [fn |-> fn, a |-> ip1, b |-> ip2, bool |-> b, ip |-> ip]

\* A call of packets.IsLocal(ip1).
ClassIsLocal ==
  /\ cpc = "ready"
  /\ ~Returned("IsLocal")
  /\ cret' = cret \cup {CallRecord("IsLocal", IsLocal(ip1), NilIP)}
  /\ UNCHANGED <<vals, pktNet, cpc>>
  /\ UNCHANGED notClass

\* A call of dashboard.isLocal(ip1).
ClassisLocal ==
  /\ cpc = "ready"
  /\ ~Returned("isLocal")
  /\ cret' = cret \cup {CallRecord("isLocal", isLocal(ip1), NilIP)}
  /\ UNCHANGED <<vals, pktNet, cpc>>
  /\ UNCHANGED notClass

\* A call of packets.local(ip1, ip2).
ClassLocal ==
  /\ cpc = "ready"
  /\ ~Returned("local")
  /\ cret' = cret \cup {CallRecord("local", FALSE, local(ip1, ip2))}
  /\ UNCHANGED <<vals, pktNet, cpc>>
  /\ UNCHANGED notClass

\* A call of dashboard.AddPacket on a packet from ip1 to ip2.
ClassAddPacket ==
  /\ cpc = "ready"
  /\ ~Returned("AddPacket")
  /\ vals' = AddPacket(vals, Meta(ip1, ip2, 80, Len(ip1) = 16 /\ To4(ip1) = NilIP))
  /\ cret' = cret \cup {CallRecord("AddPacket", FALSE, NilIP)}
  /\ UNCHANGED <<pktNet, cpc>>
  /\ UNCHANGED notClass

NextClass ==
  \/ ParseLocalnet
  \/ ClassIsLocal
  \/ ClassisLocal
  \/ ClassLocal
  \/ ClassAddPacket

SpecClass == InitClass /\ [][NextClass]_vars

\* The IPv4 address an IP denotes, as its four bytes, or <<>>.
AsIPv4(ip) ==
  IF Len(ip) = 4 THEN ip
  ELSE IF Len(ip) = 16 /\ SubSeq(ip, 1, 12) = Zeros(10) \o <<255, 255>>
       THEN SubSeq(ip, 13, 16)
       ELSE <<>>

\* The hard-wired ranges, written as intervals of address bytes.
InHardRange(ip) ==
  LET q == AsIPv4(ip)
  IN  IF q # <<>>
      THEN \/ q[1] = 10
           \/ (q[1] = 172 /\ q[2] >= 16 /\ q[2] <= 31)
           \/ (q[1] = 192 /\ q[2] = 168)
           \/ (q[1] = 169 /\ q[2] = 254)
           \/ q = <<0, 0, 0, 0>>
           \/ q = <<255, 255, 255, 255>>
      ELSE /\ Len(ip) = 16
           /\ \/ ip[1] = 253
              \/ (ip[1] = 254 /\ ip[2] >= 128 /\ ip[2] <= 191)

\* The range 100.64.0.0 - 100.127.255.255 the flag declares in LocalnetFlags.
InDeclaredRange(flag, ip) ==
  LET q == AsIPv4(ip)
  IN  /\ flag \in {"100.64.0.0/10", "100.64.0.5/10"}
      /\ q # <<>>
      /\ q[1] = 100
      /\ q[2] >= 64
      /\ q[2] <= 127

C22_LocalFirst ==
  \A r \in cret :
    r.fn = "local" =>
      r.ip = IF InHardRange(r.a) \/ InDeclaredRange(localnet, r.a) THEN r.a ELSE r.b

C22_Witness ==
  \E r \in cret :
    /\ r.fn = "local"
    /\ r.a = IP4(10, 0, 0, 1)
    /\ r.b = IP4(192, 168, 1, 2)
    /\ r.ip = r.a

\* C28: when -localnet names a valid CIDR, AddPacket treats the addresses
\* inside it as local: a packet from inside the range to a public address
\* is counted in Up and not in External.
C28_LocalnetReachesAddPacket ==
  \A r \in cret :
    ( /\ r.fn = "AddPacket"
      /\ InDeclaredRange(localnet, r.a)
      /\ ~InHardRange(r.b)
      /\ ~InDeclaredRange(localnet, r.b)
      /\ r.b # NilIP )
    => (vals.Up.Packets = 1 /\ vals.External.Packets = 0)

\* ------------------------------------------------------------------------
\* SpecPool: the recycle pool c.bufferRing under one processor with a sink
\* and the logBuffer goroutines it starts.  A slice is its length and its
\* capacity; c.BufferSize is any value the -buffer flag can configure from 0
\* up to BufferSize.
\* ------------------------------------------------------------------------

\* The number of logBuffer goroutines that hold a batch at one time.
MaxInFlight == 101

Slice(l, c) == [len |-> l, cap |-> c]

\* make([]Metadata, 0, c.BufferSize)
MakeBuffer(size) == Slice(0, size)

\* The capacity append gives a slice that is full: at least one more element.
GrowCap(c) == IF c = 0 THEN 1 ELSE 2 * c

\* append(buffer, b)
AppendBuffer(b) ==
  IF b.len < b.cap THEN Slice(b.len + 1, b.cap) ELSE Slice(b.len + 1, GrowCap(b.cap))

\* Capture.nextBuffer on the ring and the configured size.
nextBufferOf(ring, size) ==
  IF ring # <<>>
  THEN [buf |-> Head(ring), ring |-> Tail(ring)]
  ELSE [buf |-> MakeBuffer(size), ring |-> ring]

\* logBuffer pushing b[:0] whatever the ring holds.
logBufferPushAlways(ring, b) == Append(ring, Slice(0, b.cap))

\* The select of logBuffer: `case c.bufferRing <- b[:0]:` or `default:`.
logBufferPush(ring, b) ==
  IF Len(ring) < maxBuffers THEN Append(ring, Slice(0, b.cap)) ELSE ring

NoOp == [op |-> "none", before |-> <<>>, b |-> Slice(0, 0)]

InitPool ==
  /\ vals = ZeroVals
  /\ apc = [c \in 1..NumCallers |-> "idle"]
  /\ am = [c \in 1..NumCallers |-> NoMeta]
  /\ returned = <<>>
  /\ LiveIdle
  /\ DNSIdle
  /\ RWIdle
  /\ NamesIdle
  /\ WriteIdle
  /\ MainIdle
  /\ ClassIdle
  /\ LayersIdle
  /\ SharedIdle
  /\ bufsz \in 0..BufferSize
  /\ pool = <<>>
  /\ pbuf = Slice(0, 0)
  /\ bpc = "start"
  /\ plog = EmptyBag
  /\ plast = NoOp

notPool == <<acctVars, liveVars, dnsVars, rwVars, namesVars, writeVars, mainVars, classVars,
             layersVars, sharedVars, bufsz>>

\* buffer := c.nextBuffer(), at the start of processor.
PoolStart ==
  /\ bpc = "start"
  /\ LET r == nextBufferOf(pool, bufsz)
     IN  /\ pbuf' = r.buf
         /\ pool' = r.ring
         /\ plast' = [op |-> "next", before |-> pool, b |-> r.buf]
  /\ bpc' = "loop"
  /\ UNCHANGED plog
  /\ UNCHANGED notPool

\* A frame is decoded: buffer = append(buffer, b), and the test of
\* `len(buffer) >= c.BufferSize`.
PoolAppend ==
  /\ bpc = "loop"
  /\ pbuf' = AppendBuffer(pbuf)
  /\ bpc' = IF pbuf.len + 1 >= bufsz THEN "handoff" ELSE "loop"
  /\ UNCHANGED <<pool, plog, plast>>
  /\ UNCHANGED notPool

\* go c.logBuffer(buffer)
PoolHandoff ==
  /\ bpc = "handoff"
  /\ BagCardinality(plog) < MaxInFlight
  /\ plog' = plog (+) SetToBag({pbuf})
  /\ bpc' = "next"
  /\ UNCHANGED <<pool, pbuf, plast>>
  /\ UNCHANGED notPool

\* buffer = c.nextBuffer(), after the handoff.
PoolNext ==
  /\ bpc = "next"
  /\ LET r == nextBufferOf(pool, bufsz)
     IN  /\ pbuf' = r.buf
         /\ pool' = r.ring
         /\ plast' = [op |-> "next", before |-> pool, b |-> r.buf]
  /\ bpc' = "loop"
  /\ UNCHANGED plog
  /\ UNCHANGED notPool

\* A logBuffer goroutine: c.Log(b) has returned, b[:0] goes to the ring or
\* is dropped, and the goroutine ends.
PoolRelease ==
  /\ \E b \in BagToSet(plog) :
       /\ plog' = plog (-) SetToBag({b})
       /\ pool' = logBufferPush(pool, b)
       /\ plast' = [op |-> "release", before |-> pool, b |-> b]
  /\ UNCHANGED <<pbuf, bpc>>
  /\ UNCHANGED notPool

NextPool ==
  \/ PoolStart
  \/ PoolAppend
  \/ PoolHandoff
  \/ PoolNext
  \/ PoolRelease

SpecPool == InitPool /\ [][NextPool]_vars

\* The pool holds at most maxBuffers batches, all of length 0; a batch
\* returned by nextBuffer has length 0; a release into a full pool leaves
\* the pool as it was.
PoolShape ==
  /\ Len(pool) <= maxBuffers
  /\ \A i \in DOMAIN pool : pool[i].len = 0
  /\ plast.op = "next" => plast.b.len = 0
  /\ (plast.op = "release" /\ Len(plast.before) = maxBuffers) => pool = plast.before

\* C23, as stated: the pool holds at most 100 batches, each of length 0;
\* every batch returned by nextBuffer has length 0 and capacity equal to the
\* configured BufferSize; a release into a pool of 100 batches discards the
\* batch and leaves the pool unchanged.
C23_PoolInvariant ==
  /\ PoolShape
  /\ plast.op = "next" => plast.b.cap = bufsz

\* C23, amended: the same, with the capacity equal to the configured
\* BufferSize when BufferSize >= 1; with BufferSize = 0 a new batch has
\* capacity 0 and a recycled one the capacity append gave it, at least 1.
C23_PoolInvariantPositiveSize ==
  /\ PoolShape
  /\ plast.op = "next" =>
       IF bufsz >= 1 THEN plast.b.cap = bufsz
       ELSE IF plast.before = <<>> THEN plast.b.cap = 0
       ELSE plast.b.cap >= 1

\* A release has found the pool full and dropped a batch of a run with
\* BufferSize >= 1; before that a recycled batch was handed out.
C23_Witness ==
  /\ bufsz >= 1
  /\ plast.op = "release"
  /\ Len(plast.before) = maxBuffers
  /\ Len(pool) = maxBuffers

\* ------------------------------------------------------------------------
\* SpecLayers: one processor building the Metadata of the packets of a
\* capture from their decoded layers, on a reverse DNS map that is not
\* changing.  The decoder structs ip4 and ip6 live across packets.
\* ------------------------------------------------------------------------

\* The addresses of an IP header.
Hdr(src, dst) == [SrcIP |-> src, DstIP |-> dst]

NoHdr == Hdr(NilIP, NilIP)

\* A packet as DecodeLayers sees it: the IPv4 and the IPv6 header it decodes,
\* if any, and the decoded layer types, outermost first.
Packet(h4, h6, layers) == [ip4 |-> h4, ip6 |-> h6, decoded |-> layers]

\* TCP over IPv4, UDP over IPv6, IPv4 inside IPv6, IPv6 inside IPv4, and a
\* frame in which no IP layer decodes.
PacketKinds ==
  { Packet(Hdr(AddrA, IP4(1, 2, 3, 4)), NoHdr, <<"Ethernet", "IPv4", "TCP">>),
    Packet(NoHdr, Hdr(AddrAAAA, AddrOther), <<"Ethernet", "IPv6", "UDP">>),
    Packet(Hdr(AddrA, IP4(1, 2, 3, 4)), Hdr(AddrAAAA, AddrOther),
           <<"Ethernet", "IPv6", "IPv4", "TCP">>),
    Packet(Hdr(IP4(1, 2, 3, 4), AddrA), Hdr(AddrOther, AddrAAAA),
           <<"Ethernet", "IPv4", "IPv6", "UDP">>),
    Packet(NoHdr, NoHdr, <<"Ethernet">>) }

\* The bindings of the map during the run.
LayersMap ==
  Put(Put(EmptyMap, NewIPEndpoint(AddrA), NameT), NewIPEndpoint(AddrAAAA), NameM1)

InitLayers ==
  /\ vals = ZeroVals
  /\ apc = [c \in 1..NumCallers |-> "idle"]
  /\ am = [c \in 1..NumCallers |-> NoMeta]
  /\ returned = <<>>
  /\ LiveIdle
  /\ rm = LayersMap
  /\ mu = "free"
  /\ dpc = "idle"
  /\ dans = <<>>
  /\ cnames = EmptyMap
  /\ ips = EmptyMap
  /\ dleft = <<>>
  /\ dip = InvalidEndpoint
  /\ dn = ""
  /\ dnames = <<>>
  /\ nadds = 0
  /\ bound = {}
  /\ RWIdle
  /\ NamesIdle
  /\ WriteIdle
  /\ MainIdle
  /\ ClassIdle
  /\ PoolIdle
  /\ SharedIdle
  /\ yq \in UNION {[1..n -> PacketKinds] : n \in 1..MaxFrames}
  /\ ypc = "recv"
  /\ ypkt = Packet(NoHdr, NoHdr, <<>>)
  /\ yip4 = NoHdr
  /\ yip6 = NoHdr
  /\ yl = 0
  /\ yb = ZeroNamedMeta
  /\ yout = <<>>

notLayers == <<acctVars, liveVars, dnsVars, rwVars, namesVars, writeVars, mainVars,
               classVars, poolVars, sharedVars>>

\* `for packet := range packetsCh`: DecodeLayers fills the struct of every
\* layer it decodes and leaves the others as they were; b := Metadata{...}.
YRecv ==
  /\ ypc = "recv"
  /\ yq # <<>>
  /\ ypkt' = Head(yq)
  /\ yq' = Tail(yq)
  /\ yip4' = IF \E i \in DOMAIN Head(yq).decoded : Head(yq).decoded[i] = "IPv4"
             THEN Head(yq).ip4 ELSE yip4
  /\ yip6' = IF \E i \in DOMAIN Head(yq).decoded : Head(yq).decoded[i] = "IPv6"
             THEN Head(yq).ip6 ELSE yip6
  /\ yl' = 1
  /\ yb' = ZeroNamedMeta
  /\ ypc' = "layer"
  /\ UNCHANGED yout
  /\ UNCHANGED notLayers

\* case layers.LayerTypeIPv6
YLayerIPv6 ==
  /\ ypc = "layer"
  /\ yl <= Len(ypkt.decoded)
  /\ ypkt.decoded[yl] = "IPv6"
  /\ yb' = NamedMeta(yip6.SrcIP, yip6.DstIP,
                     name(rm, FlowEndpoint("IPv6", yip6.SrcIP)),
                     name(rm, FlowEndpoint("IPv6", yip6.DstIP)), TRUE)
  /\ yl' = yl + 1
  /\ UNCHANGED <<yq, ypc, ypkt, yip4, yip6, yout>>
  /\ UNCHANGED notLayers

\* case layers.LayerTypeIPv4: b.V6 is not assigned.
YLayerIPv4 ==
  /\ ypc = "layer"
  /\ yl <= Len(ypkt.decoded)
  /\ ypkt.decoded[yl] = "IPv4"
  /\ yb' = NamedMeta(yip4.SrcIP, yip4.DstIP,
                     name(rm, FlowEndpoint("IPv4", yip4.SrcIP)),
                     name(rm, FlowEndpoint("IPv4", yip4.DstIP)), yb.V6)
  /\ yl' = yl + 1
  /\ UNCHANGED <<yq, ypc, ypkt, yip4, yip6, yout>>
  /\ UNCHANGED notLayers

\* The layers that leave addresses, names and V6 alone.
YLayerOther ==
  /\ ypc = "layer"
  /\ yl <= Len(ypkt.decoded)
  /\ ypkt.decoded[yl] \notin {"IPv4", "IPv6"}
  /\ yl' = yl + 1
  /\ UNCHANGED <<yq, ypc, ypkt, yip4, yip6, yb, yout>>
  /\ UNCHANGED notLayers

\* The loop over decoded has ended: c.Account(&b).
YEmit ==
  /\ ypc = "layer"
  /\ yl > Len(ypkt.decoded)
  /\ yout' = Append(yout, [pkt |-> ypkt, b |-> yb])
  /\ ypc' = "recv"
  /\ UNCHANGED <<yq, ypkt, yip4, yip6, yl, yb>>
  /\ UNCHANGED notLayers

NextLayers ==
  \/ YRecv
  \/ YLayerIPv6
  \/ YLayerIPv4
  \/ YLayerOther
  \/ YEmit

SpecLayers == InitLayers /\ [][NextLayers]_vars

\* The first IP layer of a decoded list, or "" when there is none.
RECURSIVE Outermost(_)
Outermost(layers) ==
  IF layers = <<>> THEN ""
  ELSE IF Head(layers) \in {"IPv4", "IPv6"} THEN Head(layers)
  ELSE Outermost(Tail(layers))

\* C25: the addresses, the names and V6 of every emitted record are those of
\* the outermost decoded IP layer, V6 is true exactly when the record's
\* addresses are those of an IPv6 layer, in every order of the IP layers;
\* with no IP layer the addresses are absent, the names empty, V6 false.
C25_OutermostIPLayer ==
  \A i \in DOMAIN yout :
    LET p == yout[i].pkt
        b == yout[i].b
        o == Outermost(p.decoded)
        h == IF o = "IPv4" THEN p.ip4 ELSE p.ip6
    IN  IF o = "" THEN b = ZeroNamedMeta
        ELSE /\ b.SrcIP = h.SrcIP
             /\ b.DstIP = h.DstIP
             /\ b.SrcName = name(rm, NewIPEndpoint(h.SrcIP))
             /\ b.DstName = name(rm, NewIPEndpoint(h.DstIP))
             /\ b.V6 = (o = "IPv6")
             /\ b.V6 = (Len(b.SrcIP) = 16 /\ To4(b.SrcIP) = NilIP)

\* ------------------------------------------------------------------------
\* SpecShared: the variables the HTTP handlers share with each other and
\* with Live: dashboard.vals.Now, written by State, and vars.varMap, written
\* by Register and ranged over by Evaluate.  The server is started by main
\* before c.Live(), each request runs in a goroutine of its own, and none of
\* these accesses takes a lock; an access lasts from its begin step to its
\* end step.
\* ------------------------------------------------------------------------

\* The number of HTTP requests served at one time.
NumHandlers == 2

Handlers == 1..NumHandlers

\* The keys of varMap at package initialisation.
InitialKeys == {"go-version", "go-root", "num-cpu", "num-cgo-call", "num-goroutine"}

\* The keys Live registers, in order.
LiveKeys == <<"reverse-dns-map-size", "packets-channel-len", "buffer-ring-len">>

InitShared ==
  /\ vals = ZeroVals
  /\ apc = [c \in 1..NumCallers |-> "idle"]
  /\ am = [c \in 1..NumCallers |-> NoMeta]
  /\ returned = <<>>
  /\ LiveIdle
  /\ DNSIdle
  /\ RWIdle
  /\ NamesIdle
  /\ WriteIdle
  /\ MainIdle
  /\ ClassIdle
  /\ PoolIdle
  /\ LayersIdle
  /\ varMap = InitialKeys
  /\ nreg = 0
  /\ inreg = FALSE
  /\ shpc = [h \in Handlers |-> "idle"]
  /\ shraced = [h \in Handlers |-> FALSE]
  /\ nowBy = 0
  /\ nreq = 0
  /\ crashed = FALSE

notShared == <<acctVars, liveVars, dnsVars, rwVars, namesVars, writeVars, mainVars,
               classVars, poolVars, layersVars>>

\* vars.Register called by Live: the assignment varMap[key] = eval begins.
RegisterBegin ==
  /\ ~crashed
  /\ nreg < Len(LiveKeys)
  /\ ~inreg
  /\ inreg' = TRUE
  /\ shraced' = [h \in Handlers |-> shraced[h] \/ shpc[h] = "evaluate"]
  /\ UNCHANGED <<varMap, nreg, shpc, nowBy, nreq, crashed>>
  /\ UNCHANGED notShared

\* The assignment varMap[key] = eval is complete.
RegisterEnd ==
  /\ ~crashed
  /\ inreg
  /\ varMap' = varMap \cup {LiveKeys[nreg + 1]}
  /\ nreg' = nreg + 1
  /\ inreg' = FALSE
  /\ UNCHANGED <<shpc, shraced, nowBy, nreq, crashed>>
  /\ UNCHANGED notShared

\* A request for /vars: handler calls Evaluate, whose range over varMap begins.
EvaluateBegin(h) ==
  /\ ~crashed
  /\ shpc[h] = "idle"
  /\ nreq < MaxCalls
  /\ nreq' = nreq + 1
  /\ shpc' = [shpc EXCEPT ![h] = "evaluate"]
  /\ shraced' = [shraced EXCEPT ![h] = inreg]
  /\ UNCHANGED <<varMap, nreg, inreg, nowBy, crashed>>
  /\ UNCHANGED notShared

\* The range over varMap ends and the response is written.
EvaluateEnd(h) ==
  /\ ~crashed
  /\ shpc[h] = "evaluate"
  /\ shpc' = [shpc EXCEPT ![h] = "idle"]
  /\ shraced' = [shraced EXCEPT ![h] = FALSE]
  /\ UNCHANGED <<varMap, nreg, inreg, nowBy, nreq, crashed>>
  /\ UNCHANGED notShared

\* The range over varMap has overlapped an assignment to it: the runtime
\* may detect it and end the process ("concurrent map iteration and map write").
EvaluateFatal(h) ==
  /\ ~crashed
  /\ shpc[h] = "evaluate"
  /\ shraced[h]
  /\ crashed' = TRUE
  /\ UNCHANGED <<varMap, nreg, inreg, shpc, shraced, nowBy, nreq>>
  /\ UNCHANGED notShared

\* A request for the dashboard values: State begins vals.Now = time.Now().
StateBegin(h) ==
  /\ ~crashed
  /\ shpc[h] = "idle"
  /\ nreq < MaxCalls
  /\ nreq' = nreq + 1
  /\ shpc' = [shpc EXCEPT ![h] = "now"]
  /\ UNCHANGED <<varMap, nreg, inreg, shraced, nowBy, crashed>>
  /\ UNCHANGED notShared

\* The write of vals.Now is complete; `return vals` begins to copy the struct.
StateStored(h) ==
  /\ ~crashed
  /\ shpc[h] = "now"
  /\ nowBy' = h
  /\ shpc' = [shpc EXCEPT ![h] = "copy"]
  /\ UNCHANGED <<varMap, nreg, inreg, shraced, nreq, crashed>>
  /\ UNCHANGED notShared

\* The copy is complete and the response is written.
StateEnd(h) ==
  /\ ~crashed
  /\ shpc[h] = "copy"
  /\ shpc' = [shpc EXCEPT ![h] = "idle"]
  /\ UNCHANGED <<varMap, nreg, inreg, shraced, nowBy, nreq, crashed>>
  /\ UNCHANGED notShared

NextShared ==
  \/ RegisterBegin
  \/ RegisterEnd
  \/ \E h \in Handlers :
       \/ EvaluateBegin(h)
       \/ EvaluateEnd(h)
       \/ EvaluateFatal(h)
       \/ StateBegin(h)
       \/ StateStored(h)
       \/ StateEnd(h)

SpecShared == InitShared /\ [][NextShared]_vars

\* C27: apart from the reverse DNS map, no variable is written by one task
\* while another task reads or writes it without synchronization: vals.Now
\* is not being written while another handler writes or copies it, and
\* varMap is not being assigned while a handler ranges over it.
C27_NoOtherSharedState ==
  /\ \A h1 \in Handlers : \A h2 \in Handlers :
       (h1 # h2 /\ shpc[h1] = "now") => shpc[h2] \notin {"now", "copy"}
  /\ inreg => \A h \in Handlers : shpc[h] # "evaluate"
  /\ ~crashed

\* ------------------------------------------------------------------------
\* Further properties of Spec.
\* ------------------------------------------------------------------------

C26_PerWorkerLogOrder ==
  \A t1 \in DOMAIN tasks : \A t2 \in DOMAIN tasks :
    ( /\ t1 < t2
      /\ tasks[t1].w = tasks[t2].w
      /\ tasks[t2].pc # "spawned" )
    => tasks[t1].pc # "spawned"

\* A step of a goroutine of the capture: the pump's close and wait, a
\* processor, a logBuffer / writePackets task.  The steps of a writer include
\* the answer of the sink, so a sink write call that can return counts.
Scheduled ==
  \/ ClosePackets
  \/ Wait
  \/ \E w \in Workers : Processor(w)
  \/ \E t \in TaskIds : Writer(t)

\* Spec under fair scheduling, in its weakest form: as long as some
\* goroutine of the capture can take a step, one of them eventually does.
\* The source and the operator are not obliged to act.
FairLive == Spec /\ WF_vars(Scheduled)

\* Live has returned: the queue is closed and drained, every processor has
\* terminated and, with a sink, the deferred Log of each has returned.
LiveReturned ==
  /\ lpc = "returned"
  /\ chClosed
  /\ packetsCh = <<>>
  /\ \A w \in Workers :
       /\ wpc[w] = "done"
       /\ sink => \E t \in DOMAIN tasks :
                    tasks[t].kind = "flush" /\ tasks[t].w = w /\ tasks[t].pc = "logret"

\* Nothing is left to do: Live has returned, or failed at startup, and
\* every logBuffer task has ended.
LiveEnded ==
  /\ lpc \in {"returned", "failed"}
  /\ \A t \in DOMAIN tasks : tasks[t].pc \in {"logret", "done"} /\ tasks[t].sers = <<>>

AddressEndpoints(answers) ==
  {NewIPEndpoint(answers[i].IP) : i \in {j \in DOMAIN answers : IsAddress(answers[j])}}

\* The name of the last class-IN A or AAAA record of the answer for e.
LastName(answers, e) ==
  LET is == {i \in DOMAIN answers :
               IsAddress(answers[i]) /\ NewIPEndpoint(answers[i].IP) = e}
  IN  answers[CHOOSE i \in is : \A j \in is : j <= i].Name

\* For each name, the texts of the comma-joined lists of at most MaxWalk
\* names that begin with it.
ChainTexts ==
  [n \in DNSNames |->
     {Join(c, ",") : c \in {q \in UNION {[1..k -> DNSNames] : k \in 1..MaxWalk} : q[1] = n}}]

\* A step changes the map only by the store of add, for an endpoint of a
\* class-IN A or AAAA record of the answer; no binding is removed and the
\* size does not decrease.
FrameOfAdd ==
  /\ DOMAIN rm \subseteq DOMAIN rm'
  /\ Cardinality(DOMAIN rm') >= Cardinality(DOMAIN rm)
  /\ \A e \in DOMAIN rm' :
       (e \notin DOMAIN rm \/ rm'[e] # rm[e])
         => (dpc = "store" /\ e \in AddressEndpoints(dans))

\* C30: add changes the binding only of the endpoints of the class-IN A and
\* AAAA records of its answer, every other binding is unchanged, none is
\* removed and the size never decreases; once add has returned, each of
\* those endpoints is bound to a name list that begins with the name of the
\* answer's last address record for it, so name(e) reflects the most recent
\* add that bound e.
C30_AddFrame ==
  /\ [][FrameOfAdd]_vars
  /\ [](AddReturned =>
         \A e \in AddressEndpoints(dans) :
           e \in DOMAIN rm /\ rm[e] \in ChainTexts[LastName(dans, e)])

\* A second add has returned whose answer holds an A record of class CH
\* for AddrA and binds AddrAAAA alone: the binding of AddrA made by the
\* first add is still there.
C30_Witness ==
  /\ AddReturned
  /\ nadds = 2
  /\ AddressEndpoints(dans) = {NewIPEndpoint(AddrAAAA)}
  /\ \E i \in DOMAIN dans : dans[i].Class = "CH"
  /\ NewIPEndpoint(AddrA) \in DOMAIN rm
  /\ NewIPEndpoint(AddrAAAA) \in DOMAIN rm

\* ------------------------------------------------------------------------
\* Further properties of SpecAcct.
\* ------------------------------------------------------------------------

\* The number of AddPacket calls in progress.
InProgress == Cardinality({c \in Callers : apc[c] # "idle"})

SubtotalSum(f) ==
  vals["Up"][f] + vals["Down"][f] + vals["Internal"][f] + vals["External"][f]

BoundarySum(f) == vals["Up"][f] + vals["Down"][f] + vals["External"][f]

FamilySum(f) == vals["V4"][f] + vals["V6"][f]

\* C31: in every reachable state, calls in progress included, Total is at
\* least the sum of Up, Down, Internal and External, and Up + Down +
\* External is at least V4 + V6, in packets and in bytes; each difference in
\* packets is at most the number of AddPacket calls in progress.
C31_PartialSums ==
  /\ \A f \in {"Packets", "Bytes"} :
       /\ vals["Total"][f] >= SubtotalSum(f)
       /\ BoundarySum(f) >= FamilySum(f)
  /\ vals["Total"].Packets - SubtotalSum("Packets") <= InProgress
  /\ BoundarySum("Packets") - FamilySum("Packets") <= InProgress

\* A call has returned and two are in progress: one has added to Total and
\* not yet to its subtotal, the other to its subtotal and not yet to its
\* family.
C31_Witness ==
  /\ Len(returned) >= 1
  /\ InProgress = 2
  /\ vals["Total"].Packets - SubtotalSum("Packets") = 1
  /\ BoundarySum("Packets") - FamilySum("Packets") = 1
  /\ vals["Total"].Bytes > SubtotalSum("Bytes")
  /\ BoundarySum("Bytes") > FamilySum("Bytes")

\* ------------------------------------------------------------------------
\* The end of Live, under Spec.
\* ------------------------------------------------------------------------

\* C32: when Live has returned, every full batch handed off to a logBuffer
\* goroutine has finished its sink write: c.Log has returned and the batch
\* has been released to the ring or discarded.
C32_NoWriterInFlightAtReturn ==
  lpc = "returned" =>
    \A t \in DOMAIN tasks : tasks[t].kind = "async" => tasks[t].pc = "done"

\* The frames read from the source so far.
FramesRead == 1..nread

\* The places a frame read from the source is in: in the pump's hand before
\* the select, sent on packetsCh, or dropped.
ReadPlaces(f) ==
  (IF cur = f THEN 1 ELSE 0)
  + Cardinality({i \in DOMAIN enqueued : enqueued[i] = f})
  + Cardinality({i \in DOMAIN dropped : dropped[i] = f})

C33_State ==
  /\ \A f \in FramesRead : ReadPlaces(f) = 1
  /\ Range(enqueued) \cup Range(dropped) \subseteq FramesRead
  /\ Range(dropped) \cap Range(accounted) = {}
  /\ \A f \in Range(dropped) :
       /\ \A i \in DOMAIN packetsCh : packetsCh[i] # f
       /\ \A w \in Workers : wpkt[w] # f
       /\ \A t \in DOMAIN tasks : f \notin Range(tasks[t].handed)
  /\ Len(dropped) <= 1
  /\ lpc = "returned" =>
       /\ cur = 0
       /\ \A f \in Range(enqueued) :
            /\ f \in Range(accounted)
            /\ sink => \E t \in DOMAIN tasks : f \in Range(tasks[t].handed)

\* A frame is dropped only by the stop case of the select that sends it.
C33_Step ==
  dropped' # dropped =>
    /\ lpc = "send"
    /\ stop = 1
    /\ cur \in FramesRead
    /\ dropped' = Append(dropped, cur)
    /\ lpc' = "close"
    /\ UNCHANGED <<packetsCh, enqueued>>

\* C33: every frame read from the source is either sent on packetsCh, and
\* then accounted and (with a sink) put in a batch before Live returns, or
\* dropped and never accounted; a frame is dropped only when the stop case
\* is selected at that frame's send, so at most one frame is lost in a run
\* and the frames in the queue at the interrupt are still processed.
C33_FramesEnqueuedOrDropped == []C33_State /\ [][C33_Step]_vars

\* Live has returned with a sink after an interrupt taken at the third
\* frame's send: that frame is lost, the two sent before it are accounted.
C33_Witness ==
  /\ lpc = "returned"
  /\ sink
  /\ dropped = <<3>>
  /\ enqueued = <<1, 2>>
  /\ Range(accounted) = {1, 2}
  /\ \A f \in {1, 2} : \E t \in DOMAIN tasks : f \in Range(tasks[t].handed)

====
